---- MODULE Spec2Model ----
(***************************************************************************)
(* Model of the HLAS conversational quote bot: the orchestrator            *)
(* (agents/intelligent_orchestrator.py), the travel and family payload     *)
(* agents, the quote manager and the Redis session store                   *)
(* (app/session_manager.py).                                               *)
(*                                                                         *)
(* Texts are TLA+ strings; the text operators below compute what the       *)
(* Python string methods compute (strip, lower, "in", replace, split,      *)
(* int(), datetime.strptime), character by character.                      *)
(*                                                                         *)
(* An optional value (a dict key that may be absent, or hold None) is a    *)
(* sequence: None == << >> and Some(v) == <<v>>.                           *)
(***************************************************************************)
EXTENDS Integers, Sequences, FiniteSets, TLC

\* ------------------------------------------------------------------------
\* Optional values
\* ------------------------------------------------------------------------
None == << >>

Some(v) == <<v>>

IsNone(o) == o = << >>

Val(o) == o[1]

\* ------------------------------------------------------------------------
\* Python text operations
\* ------------------------------------------------------------------------
Min(a, b) == IF a < b THEN a ELSE b

Max(a, b) == IF a > b THEN a ELSE b

CharAt(s, i) == SubSeq(s, i, i)

\* str.lower() on the letters the inputs use
LowerChar(c) ==
  CASE c = "A" -> "a" [] c = "B" -> "b" [] c = "C" -> "c" [] c = "D" -> "d"
    [] c = "E" -> "e" [] c = "F" -> "f" [] c = "G" -> "g" [] c = "H" -> "h"
    [] c = "I" -> "i" [] c = "J" -> "j" [] c = "K" -> "k" [] c = "L" -> "l"
    [] c = "M" -> "m" [] c = "N" -> "n" [] c = "O" -> "o" [] c = "P" -> "p"
    [] c = "Q" -> "q" [] c = "R" -> "r" [] c = "S" -> "s" [] c = "T" -> "t"
    [] c = "U" -> "u" [] c = "V" -> "v" [] c = "W" -> "w" [] c = "X" -> "x"
    [] c = "Y" -> "y" [] c = "Z" -> "z" [] OTHER -> c

RECURSIVE LowerFrom(_, _)
LowerFrom(s, i) ==
  IF i > Len(s) THEN "" ELSE LowerChar(CharAt(s, i)) \o LowerFrom(s, i + 1)

Lower(s) == LowerFrom(s, 1)

RECURSIVE FirstNonSpace(_, _)
FirstNonSpace(s, i) ==
  IF i > Len(s) THEN i
  ELSE IF CharAt(s, i) = " " THEN FirstNonSpace(s, i + 1) ELSE i

RECURSIVE LastNonSpace(_, _)
LastNonSpace(s, i) ==
  IF i < 1 THEN i
  ELSE IF CharAt(s, i) = " " THEN LastNonSpace(s, i - 1) ELSE i

\* str.strip()
Strip(s) == SubSeq(s, FirstNonSpace(s, 1), LastNonSpace(s, Len(s)))

\* sub in s
Contains(s, sub) ==
  \E i \in 1..(Len(s) - Len(sub) + 1) : SubSeq(s, i, i + Len(sub) - 1) = sub

\* s.startswith(pre)
StartsWith(s, pre) == Len(s) >= Len(pre) /\ SubSeq(s, 1, Len(pre)) = pre

\* s.replace(old, new), left to right, non-overlapping (old is not empty)
RECURSIVE ReplaceFrom(_, _, _, _)
ReplaceFrom(s, i, old, new) ==
  IF i > Len(s) THEN ""
  ELSE IF i + Len(old) - 1 <= Len(s) /\ SubSeq(s, i, i + Len(old) - 1) = old
       THEN new \o ReplaceFrom(s, i + Len(old), old, new)
       ELSE CharAt(s, i) \o ReplaceFrom(s, i + 1, old, new)

Replace(s, old, new) == ReplaceFrom(s, 1, old, new)

\* s.split(sep) for a one-character sep: the pieces, empty ones included
RECURSIVE SplitFrom(_, _, _, _)
SplitFrom(s, i, start, sep) ==
  IF i > Len(s) THEN << SubSeq(s, start, Len(s)) >>
  ELSE IF CharAt(s, i) = sep
       THEN << SubSeq(s, start, i - 1) >> \o SplitFrom(s, i + 1, i + 1, sep)
       ELSE SplitFrom(s, i + 1, start, sep)

Split(s, sep) == SplitFrom(s, 1, 1, sep)

\* ', '.join(parts)
RECURSIVE Join(_)
Join(parts) ==
  IF Len(parts) = 0 THEN ""
  ELSE IF Len(parts) = 1 THEN parts[1]
  ELSE parts[1] \o ", " \o Join(Tail(parts))

DigitVal(c) ==
  CASE c = "0" -> 0 [] c = "1" -> 1 [] c = "2" -> 2 [] c = "3" -> 3
    [] c = "4" -> 4 [] c = "5" -> 5 [] c = "6" -> 6 [] c = "7" -> 7
    [] c = "8" -> 8 [] c = "9" -> 9 [] OTHER -> -1

AllDigits(s) == Len(s) > 0 /\ \A i \in 1..Len(s) : DigitVal(CharAt(s, i)) >= 0

RECURSIVE DigitsValue(_, _)
DigitsValue(s, n) ==
  IF n = 0 THEN 0 ELSE 10 * DigitsValue(s, n - 1) + DigitVal(CharAt(s, n))

\* int(s): surrounding blanks and one sign are accepted; None stands for the
\* ValueError int() raises
ParseInt(s) ==
  LET t == Strip(s)
      signed == Len(t) > 0 /\ CharAt(t, 1) \in {"-", "+"}
      d == IF signed THEN SubSeq(t, 2, Len(t)) ELSE t
  IN IF ~AllDigits(d) THEN None
     ELSE Some(IF signed /\ CharAt(t, 1) = "-" THEN 0 - DigitsValue(d, Len(d))
               ELSE DigitsValue(d, Len(d)))

IsLeap(y) == (y % 4 = 0 /\ y % 100 # 0) \/ y % 400 = 0

DaysInMonth(y, m) ==
  IF m = 2 THEN (IF IsLeap(y) THEN 29 ELSE 28)
  ELSE IF m \in {4, 6, 9, 11} THEN 30 ELSE 31

RECURSIVE DaysBeforeMonth(_, _)
DaysBeforeMonth(y, m) ==
  IF m <= 1 THEN 0 ELSE DaysBeforeMonth(y, m - 1) + DaysInMonth(y, m - 1)

\* date.toordinal(): days since 0001-01-01, that day being 1
Ordinal(y, m, d) ==
  LET p == y - 1
  IN 365 * p + (p \div 4) - (p \div 100) + (p \div 400) + DaysBeforeMonth(y, m) + d

\* datetime.strptime(s, "%Y-%m-%d").date() as an ordinal; None stands for the
\* ValueError strptime raises. %Y takes four digits, %m and %d one or two.
ParseDate(s) ==
  LET parts == Split(s, "-")
  IN IF Len(parts) # 3 THEN None
     ELSE IF ~(AllDigits(parts[1]) /\ Len(parts[1]) = 4
               /\ AllDigits(parts[2]) /\ Len(parts[2]) <= 2
               /\ AllDigits(parts[3]) /\ Len(parts[3]) <= 2) THEN None
     ELSE LET y == DigitsValue(parts[1], 4)
              m == DigitsValue(parts[2], Len(parts[2]))
              d == DigitsValue(parts[3], Len(parts[3]))
          IN IF y >= 1 /\ m \in 1..12 /\ d >= 1 /\ d <= DaysInMonth(y, m)
             THEN Some(Ordinal(y, m, d)) ELSE None

\* ------------------------------------------------------------------------
\* Travel agent: tables, templates and questions
\* ------------------------------------------------------------------------
\* get_country_code_map(): <<name, code>> pairs
CountryCodeMap ==
  { <<"albania", "ALB">>, <<"antarctica", "ATA">>, <<"argentina", "ARG">>,
    <<"australia", "AUS">>, <<"austria", "AUS">>, <<"bahrain", "BAH">>,
    <<"bangladesh", "BAN">>, <<"belgium", "BEL">>, <<"bhutan", "BTU">>,
    <<"bolivia", "BOL">>, <<"bosnia and herzegovina", "BIH">>, <<"brazil", "BRA">>,
    <<"brunei", "BRU">>, <<"bulgaria", "BUL">>, <<"cambodia", "CAM">>,
    <<"canada", "CAN">>, <<"cayman islands", "CYM">>, <<"chile", "CHL">>,
    <<"china (excluding inner mongolia)", "CHI">>, <<"colombia", "COL">>,
    <<"costa rica", "COS">>, <<"croatia", "HRV">>, <<"cruise to nowhere", "CRU">>,
    <<"cyprus", "CYP">>, <<"czech republic", "CZE">>, <<"denmark", "DEN">>,
    <<"egypt", "EGY">>, <<"estonia", "EST">>, <<"fiji", "FJI">>,
    <<"finland", "FIN">>, <<"france", "FRA">>, <<"french polynesia", "PYF">>,
    <<"germany", "GER">>, <<"greece", "GRE">>, <<"hong kong", "HKG">>,
    <<"hungary", "HUN">>, <<"iceland", "ICE">>, <<"india", "INN">>,
    <<"indonesia", "IND">>, <<"ireland", "IRE">>, <<"israel", "ISR">>,
    <<"italy", "ITA">>, <<"japan", "JPN">>, <<"jordan", "JOR">>,
    <<"kazakhstan", "KAZ">>, <<"kenya", "KEN">>, <<"korea", "KOR">>,
    <<"kuwait", "KUW">>, <<"kyrgyzstan", "KGZ">>, <<"laos", "LAO">> }

\* country_map.get(name): None when the name is not a key
CountryCode(name) ==
  IF \E p \in CountryCodeMap : p[1] = name
  THEN Some((CHOOSE p \in CountryCodeMap : p[1] = name)[2])
  ELSE None

\* an empty dict
EmptyMap == << >>

get_single_trip_template ==
  [ ProductCode |-> "TVP",
    travel |-> [ policy_type |-> "single", country_code |-> Some(<< >>),
                 number_of_days |-> None, zone |-> None,
                 with_children |-> "no", with_spouse |-> "no",
                 with_group_of_adults |-> "no", with_group_of_households |-> "no",
                 plan |-> "gold", selectedAddOns |-> EmptyMap,
                 number_of_travellers |->
                   [ total |-> None, child |-> << >>, adult |-> << >>, group |-> 1 ],
                 households_info |-> None ],
    promotion |-> [ coupon_code |-> Some("") ],
    leads |-> [ email |-> None, contact_mobile |-> None ] ]

get_annual_trip_template ==
  [ ProductCode |-> "TPX",
    travel |-> [ policy_type |-> "annual", country_code |-> None,
                 number_of_days |-> Some(1), zone |-> None,
                 with_children |-> "no", with_spouse |-> "no",
                 with_group_of_adults |-> "no", with_group_of_households |-> "no",
                 plan |-> "gold", selectedAddOns |-> EmptyMap,
                 number_of_travellers |->
                   [ total |-> None, child |-> << >>, adult |-> << >>, group |-> 1 ],
                 households_info |-> None ],
    promotion |-> [ coupon_code |-> Some("") ],
    leads |-> [ email |-> None, contact_mobile |-> None ] ]

TravelLabels ==
  { "policy_type", "group_type_single", "group_type_annual", "zone", "num_adults",
    "num_children", "num_adults_group", "num_households", "household_info",
    "destination", "start_date", "end_date", "addon_pre_ex", "addon_ffm",
    "addon_flight_delay", "coupon_code", "email", "contact_mobile" }

\* QUESTION_MAP of the travel agent
TravelQuestion(key) ==
  CASE key = "policy_type" ->
         "Are you looking for a **Single Trip** or an **Annual Multi-Trip** policy?"
    [] key = "group_type_single" ->
         "Who will be traveling? (Yourself, Family, Group of Adults, or Group of Family)"
    [] key = "group_type_annual" ->
         "Who will this annual plan cover? (Yourself or Family)"
    [] key = "zone" ->
         "Which region do you need coverage for? (**Asia** or **Worldwide**)"
    [] key = "num_adults" -> "How many adults?"
    [] key = "num_children" -> "How many children?"
    [] key = "num_adults_group" -> "How many adults are in the group?"
    [] key = "num_households" ->
         "How many families (households) are traveling together?"
    [] key = "household_info" -> "For family #{num}, how many adults and children?"
    [] key = "destination" ->
         "Where are you traveling to? You can enter one or more countries separated by commas (max 10)."
    [] key = "start_date" -> "What is your travel start date (YYYY-MM-DD)?"
    [] key = "end_date" -> "And what is your travel end date (YYYY-MM-DD)?"
    [] key = "addon_pre_ex" ->
         "Do you need coverage for pre-existing medical conditions? (yes/no)"
    [] key = "addon_ffm" -> "Add coverage for Loss of Frequent Flyer Miles? (yes/no)"
    [] key = "addon_flight_delay" -> "Add the Flight Delay benefit? (yes/no)"
    [] key = "coupon_code" -> "Do you have a coupon code? (If not, just say 'no')"
    [] key = "email" -> "What is your email address?"
    [] key = "contact_mobile" -> "Finally, what is your 8-digit contact mobile number?"

\* ------------------------------------------------------------------------
\* Session documents (get_default_session). Every context key a handler may
\* set is a field; None stands for a key that is absent or holds None (the
\* code reads them all with dict.get, which does not tell the two apart).
\* ------------------------------------------------------------------------
DefaultContext ==
  [ primary_product |-> Some("UNKNOWN"), last_intent |-> None, error_count |-> Some(0),
    current_question_key |-> None, policy_type_choice |-> None,
    group_type_choice |-> None, num_adults |-> None, num_children |-> None,
    num_adults_group |-> None, num_households |-> None,
    households_to_collect |-> None, households_collected |-> None,
    households_data |-> None, start_date |-> None, end_date |-> None ]

ContextKeys == DOMAIN DefaultContext

get_default_session ==
  [ stage |-> "initial",
    collected_info |-> [ payload |-> None, family_payload |-> None ],
    conversation_context |-> DefaultContext ]

\* ------------------------------------------------------------------------
\* Travel agent: process_user_answer, determine_next_question, finalize_payload
\* ------------------------------------------------------------------------
MaxCountries == 10

MaxAnnualAdults == 2

MaxAnnualChildren == 5

\* context.get(key, 0)
GetOr0(o) == IF IsNone(o) THEN 0 ELSE Val(o)

\* What process_user_answer hands back: the payload (None when the session
\* held none), the context, the validation error (None when there is none),
\* whether it raised, and whether it returned before its closing
\* update_conversation_context call ("early").
Answered(p, c, err) ==
  [ payload |-> p, context |-> c, validation_error |-> err,
    raised |-> FALSE, early |-> FALSE ]

\* A rejection that counts the error in the context and leaves through the
\* closing update_conversation_context: C6_RepromptIdempotent tells it from
\* the early return
RejectedCounting(p, c, err) ==
  [ payload |-> p,
    context |-> [ c EXCEPT !.error_count = Some(GetOr0(c.error_count) + 1) ],
    validation_error |-> Some(err), raised |-> FALSE, early |-> FALSE ]

Rejected(p, c, err) ==
  [ payload |-> p, context |-> c, validation_error |-> Some(err),
    raised |-> FALSE, early |-> TRUE ]

Raised(p, c) ==
  [ payload |-> p, context |-> c, validation_error |-> None,
    raised |-> TRUE, early |-> TRUE ]

\* A group composition that takes no default: C22_EnumeratedLeniency tells
\* it from the real one
GroupTypeStrict(ans_lower) ==
  IF Contains(ans_lower, "group of families") \/ Contains(ans_lower, "households")
    THEN "group_family"
  ELSE IF Contains(ans_lower, "group of adults") THEN "group_adults"
  ELSE IF Contains(ans_lower, "family") THEN "family"
  ELSE IF Contains(ans_lower, "myself") THEN "myself"
  ELSE ""

\* lines 133-141: the group composition answers
GroupTypeSingle(ans_lower) ==
  IF Contains(ans_lower, "group of families") \/ Contains(ans_lower, "households")
    THEN "group_family"
  ELSE IF Contains(ans_lower, "group of adults") THEN "group_adults"
  ELSE IF Contains(ans_lower, "family") THEN "family"
  ELSE "myself"

GroupTypeAnnual(ans_lower) == IF Contains(ans_lower, "family") THEN "family" ELSE "myself"

\* A destination answer that commits the recognized countries and drops the
\* others: C12_DestinationAtomic tells it from the real one
DestinationPartial(answer, p, c) ==
  LET pieces == Split(answer, ",")
      entered_countries == [ i \in 1..Len(pieces) |-> Lower(Strip(pieces[i])) ]
      Known(name) == ~IsNone(CountryCode(name))
      known == SelectSeq(entered_countries, Known)
      country_codes == [ i \in 1..Len(known) |-> Val(CountryCode(known[i])) ]
  IN IF IsNone(p) THEN Raised(p, c)
     ELSE Answered(Some([ Val(p) EXCEPT !.travel.country_code = Some(country_codes) ]),
                   c, None)

\* lines 148-167: the destination answer
DestinationAnswer(answer, p, c) ==
  LET pieces == Split(answer, ",")
      entered_countries == [ i \in 1..Len(pieces) |-> Lower(Strip(pieces[i])) ]
      Known(name) == ~IsNone(CountryCode(name))
      Unknown(name) == IsNone(CountryCode(name))
      known == SelectSeq(entered_countries, Known)
      country_codes == [ i \in 1..Len(known) |-> Val(CountryCode(known[i])) ]
      unknown_countries == SelectSeq(entered_countries, Unknown)
  IN IF Len(entered_countries) > MaxCountries
     THEN Rejected(p, c,
            "You can select a maximum of 10 countries. Please provide your destination(s) again.")
     ELSE IF Len(unknown_countries) > 0
     THEN Rejected(p, c, "I don't have information for: " \o Join(unknown_countries)
                         \o ". Please choose from the available destinations.")
     ELSE IF IsNone(p) THEN Raised(p, c)
     ELSE Answered(Some([ Val(p) EXCEPT !.travel.country_code = Some(country_codes) ]),
                   c, None)

\* lines 176-185: the number of children, with the annual family limit
NumChildrenAnswer(answer, p, c) ==
  LET n == ParseInt(answer)
      c1 == [ c EXCEPT !.num_children = n ]
      adults == GetOr0(c1.num_adults)
      children == GetOr0(c1.num_children)
  IN IF IsNone(n) THEN Raised(p, c)
     ELSE IF c1.policy_type_choice = Some("annual") /\ c1.group_type_choice = Some("family")
             /\ (adults > MaxAnnualAdults \/ children > MaxAnnualChildren)
     THEN Answered(p,
            [ c1 EXCEPT !.num_adults = None, !.num_children = None,
                        !.current_question_key = Some("num_adults") ],
            Some("For an Annual Family plan, the maximum is 2 adults and 5 children. Let's start over with the number of travelers."))
     ELSE Answered(p, c1, None)

\* A household answer put in front of the earlier ones:
\* C17_Households tells it from the real one
HouseholdPrepended(answer, p, c) ==
  LET pieces == Split(Replace(answer, "and", ","), ",")
      parts == [ i \in 1..Len(pieces) |-> Strip(pieces[i]) ]
      adults == ParseInt(parts[1])
      children == IF Len(parts) >= 2 THEN ParseInt(parts[2]) ELSE None
  IN IF IsNone(adults) \/ IsNone(children) \/ IsNone(c.households_data)
     THEN Raised(p, c)
     ELSE Answered(p,
            [ c EXCEPT !.households_data =
                         Some(<< [ adults |-> Val(adults), children |-> Val(children) ] >>
                              \o Val(c.households_data)),
                       !.households_collected = Some(GetOr0(c.households_collected) + 1) ],
            None)

\* lines 191-194: one household's "adults, children" answer
HouseholdAnswer(answer, p, c) ==
  LET pieces == Split(Replace(answer, "and", ","), ",")
      parts == [ i \in 1..Len(pieces) |-> Strip(pieces[i]) ]
      adults == ParseInt(parts[1])
      children == IF Len(parts) >= 2 THEN ParseInt(parts[2]) ELSE None
  IN IF IsNone(adults) \/ IsNone(children) \/ IsNone(c.households_data)
     THEN Raised(p, c)
     ELSE Answered(p,
            [ c EXCEPT !.households_data =
                         Some(Append(Val(c.households_data),
                                     [ adults |-> Val(adults), children |-> Val(children) ])),
                       !.households_collected = Some(GetOr0(c.households_collected) + 1) ],
            None)

AddOnKey(last_q) ==
  CASE last_q = "addon_pre_ex" -> Some("preExAddOn")
    [] last_q = "addon_ffm" -> Some("lossFFMAddOn")
    [] last_q = "addon_flight_delay" -> Some("flightDelayAddOn")
    [] OTHER -> None

\* lines 195-199: a yes/no add-on answer
AddOnAnswer(last_q, answer, p, c) ==
  LET is_selected == Contains(Lower(answer), "yes")
      key == AddOnKey(last_q)
  IN IF IsNone(key) THEN Answered(p, c, None)
     ELSE IF IsNone(p) THEN Raised(p, c)
     ELSE Answered(
            Some([ Val(p) EXCEPT !.travel.selectedAddOns =
                     (Val(key) :> [ selected |-> is_selected ]) @@ @ ]),
            c, None)

\* line 200: the coupon code answer
CouponAnswer(answer) == IF Contains(Lower(answer), "no") THEN "" ELSE answer

\* process_user_answer of the travel agent, up to (not including) its closing
\* update_conversation_context(session_id, **context) call
TravelProcessAnswer(user_message, p, c) ==
  LET last_q == Val(c.current_question_key)
      answer == Strip(user_message)
      n == ParseInt(answer)
  IN CASE last_q = "policy_type" ->
            IF Contains(Lower(answer), "annual")
            THEN Answered(Some(get_annual_trip_template),
                          [ c EXCEPT !.policy_type_choice = Some("annual") ], None)
            ELSE Answered(Some(get_single_trip_template),
                          [ c EXCEPT !.policy_type_choice = Some("single") ], None)
       [] last_q = "group_type_single" ->
            Answered(p, [ c EXCEPT !.group_type_choice = Some(GroupTypeSingle(Lower(answer))) ],
                     None)
       [] last_q = "group_type_annual" ->
            Answered(p, [ c EXCEPT !.group_type_choice = Some(GroupTypeAnnual(Lower(answer))) ],
                     None)
       [] last_q = "zone" ->
            IF IsNone(p) THEN Raised(p, c)
            ELSE Answered(Some([ Val(p) EXCEPT !.travel.zone =
                                   Some(IF Contains(Lower(answer), "asia") THEN "A2" ELSE "A3") ]),
                          c, None)
       [] last_q = "destination" -> DestinationAnswer(answer, p, c)
       [] last_q = "start_date" ->
            Answered(p, [ c EXCEPT !.start_date = Some(Replace(answer, "/", "-")) ], None)
       [] last_q = "end_date" ->
            Answered(p, [ c EXCEPT !.end_date = Some(Replace(answer, "/", "-")) ], None)
       [] last_q = "num_adults" ->
            IF IsNone(n) THEN Raised(p, c)
            ELSE Answered(p, [ c EXCEPT !.num_adults = n ], None)
       [] last_q = "num_children" -> NumChildrenAnswer(answer, p, c)
       [] last_q = "num_adults_group" ->
            IF IsNone(n) THEN Raised(p, c)
            ELSE Answered(p, [ c EXCEPT !.num_adults_group = n ], None)
       [] last_q = "num_households" ->
            IF IsNone(n) THEN Raised(p, c)
            ELSE Answered(p, [ c EXCEPT !.num_households = n, !.households_to_collect = n,
                                        !.households_collected = Some(0),
                                        !.households_data = Some(<< >>) ], None)
       [] last_q = "household_info" -> HouseholdAnswer(answer, p, c)
       [] StartsWith(last_q, "addon_") -> AddOnAnswer(last_q, answer, p, c)
       [] last_q = "coupon_code" ->
            IF IsNone(p) THEN Raised(p, c)
            ELSE Answered(Some([ Val(p) EXCEPT !.promotion.coupon_code =
                                   Some(CouponAnswer(answer)) ]), c, None)
       [] last_q = "email" ->
            IF IsNone(p) THEN Raised(p, c)
            ELSE Answered(Some([ Val(p) EXCEPT !.leads.email = Some(answer) ]), c, None)
       [] last_q = "contact_mobile" ->
            IF IsNone(p) THEN Raised(p, c)
            ELSE Answered(Some([ Val(p) EXCEPT !.leads.contact_mobile = Some(answer) ]), c, None)
       [] OTHER -> Answered(p, c, None)

\* "not x" of an optional text or list: absent, None or empty
Falsy(o) == IsNone(o) \/ Len(Val(o)) = 0

\* lines 211-215: the annual branch of the resolver
NextAnnual(t, group_type, c) ==
  IF Falsy(t.zone) THEN Some("zone")
  ELSE IF group_type = Some("family") /\ IsNone(c.num_adults) THEN Some("num_adults")
  ELSE IF group_type = Some("family") /\ IsNone(c.num_children) THEN Some("num_children")
  ELSE IF "preExAddOn" \notin DOMAIN t.selectedAddOns THEN Some("addon_pre_ex")
  ELSE None

\* lines 217-228: the single-trip branch of the resolver
NextSingle(t, group_type, c) ==
  IF group_type = Some("family") /\ IsNone(c.num_adults) THEN Some("num_adults")
  ELSE IF group_type = Some("family") /\ IsNone(c.num_children) THEN Some("num_children")
  ELSE IF group_type = Some("group_adults") /\ IsNone(c.num_adults_group)
    THEN Some("num_adults_group")
  ELSE IF group_type = Some("group_family") /\ IsNone(c.num_households)
    THEN Some("num_households")
  ELSE IF group_type = Some("group_family")
          /\ GetOr0(c.households_collected) < GetOr0(c.households_to_collect)
    THEN Some("household_info")
  ELSE IF Falsy(t.country_code) THEN Some("destination")
  ELSE IF Falsy(c.start_date) THEN Some("start_date")
  ELSE IF Falsy(c.end_date) THEN Some("end_date")
  ELSE IF "preExAddOn" \notin DOMAIN t.selectedAddOns THEN Some("addon_pre_ex")
  ELSE IF "lossFFMAddOn" \notin DOMAIN t.selectedAddOns THEN Some("addon_ffm")
  ELSE IF "flightDelayAddOn" \notin DOMAIN t.selectedAddOns THEN Some("addon_flight_delay")
  ELSE None

\* lines 229-232: the shared tail of the resolver
NextTail(p) ==
  IF IsNone(p.promotion.coupon_code) THEN "coupon_code"
  ELSE IF Falsy(p.leads.email) THEN "email"
  ELSE IF Falsy(p.leads.contact_mobile) THEN "contact_mobile"
  ELSE "DONE"

\* determine_next_question of the travel agent: a label, "DONE", or "RAISE"
\* when it reads a payload that is None
TravelNextQuestion(p, c) ==
  LET policy_type == c.policy_type_choice
      group_type == c.group_type_choice
  IN IF Falsy(group_type)
     THEN (IF policy_type = Some("annual") THEN "group_type_annual" ELSE "group_type_single")
     ELSE IF IsNone(p) THEN "RAISE"
     ELSE LET branch == IF policy_type = Some("annual")
                        THEN NextAnnual(Val(p).travel, group_type, c)
                        ELSE NextSingle(Val(p).travel, group_type, c)
          IN IF IsNone(branch) THEN NextTail(Val(p)) ELSE Val(branch)

RECURSIVE SumSeq(_)
SumSeq(q) == IF Len(q) = 0 THEN 0 ELSE Head(q) + SumSeq(Tail(q))

\* [x] * n
Repeat(x, n) == [ i \in 1..n |-> x ]

YesNo(b) == IF b THEN "yes" ELSE "no"

\* lines 235-252: the traveller counts and flags of the chosen composition
FinalizeTravellers(t, c) ==
  LET group_type == c.group_type_choice
  IN IF group_type = Some("myself")
     THEN [ t EXCEPT !.number_of_travellers.adult = << 1 >>,
                     !.number_of_travellers.child = << 0 >>,
                     !.number_of_travellers.total = Some(1) ]
     ELSE IF group_type = Some("family")
     THEN LET adults == GetOr0(c.num_adults)
              children == GetOr0(c.num_children)
          IN [ t EXCEPT !.number_of_travellers.adult = << adults >>,
                        !.number_of_travellers.child = << children >>,
                        !.number_of_travellers.total = Some(adults + children),
                        !.with_children = IF children > 0 THEN "yes" ELSE @,
                        !.with_spouse = IF adults > 1 THEN "yes" ELSE @ ]
     ELSE IF group_type = Some("group_adults")
     THEN LET adults == GetOr0(c.num_adults_group)
          IN [ t EXCEPT !.number_of_travellers.adult = Repeat(1, adults),
                        !.number_of_travellers.child = Repeat(0, adults),
                        !.number_of_travellers.total = Some(adults),
                        !.with_group_of_adults = "yes" ]
     ELSE IF group_type = Some("group_family")
     THEN LET households_data == IF IsNone(c.households_data) THEN << >>
                                 ELSE Val(c.households_data)
              adults_list == [ i \in 1..Len(households_data) |-> households_data[i].adults ]
              children_list == [ i \in 1..Len(households_data) |-> households_data[i].children ]
          IN [ t EXCEPT !.number_of_travellers.adult = adults_list,
                        !.number_of_travellers.child = children_list,
                        !.number_of_travellers.total =
                           Some(SumSeq(adults_list) + SumSeq(children_list)),
                        !.number_of_travellers.group = Len(households_data),
                        !.with_group_of_households = "yes",
                        !.households_info =
                           Some([ i \in 1..Len(households_data) |->
                                  [ with_children |-> YesNo(households_data[i].children > 0),
                                    with_spouse |-> YesNo(households_data[i].adults > 1) ] ]) ]
     ELSE t

\* The day count without the end day: C16_TripDuration tells it from the
\* real one
NumberOfDaysExclusive(start, end) == Max(end - start, 1)

\* lines 253-255: the inclusive day count, floored at 1
NumberOfDays(start, end) == Max((end - start) + 1, 1)

\* finalize_payload of the travel agent: the payload, or raised
TravelFinalize(p, c) ==
  LET t == FinalizeTravellers(p.travel, c)
      start == IF IsNone(c.start_date) THEN None ELSE ParseDate(Val(c.start_date))
      end == IF IsNone(c.end_date) THEN None ELSE ParseDate(Val(c.end_date))
  IN IF c.policy_type_choice = Some("single")
     THEN IF IsNone(start) \/ IsNone(end)
          THEN [ raised |-> TRUE, payload |-> p ]
          ELSE [ raised |-> FALSE,
                 payload |-> [ p EXCEPT !.travel =
                    [ t EXCEPT !.number_of_days = Some(NumberOfDays(Val(start), Val(end))) ] ] ]
     ELSE [ raised |-> FALSE, payload |-> [ p EXCEPT !.travel = t ] ]

\* ------------------------------------------------------------------------
\* Family agent. The payload's "_internal" sub-structure is the field
\* internal: None once finalize_payload has deleted it.
\* ------------------------------------------------------------------------
get_family_payload_template ==
  [ product_code |-> "FAC", policyInceptionDate |-> None, mediaWCC |-> "HLS",
    IsCEPCustomer |-> FALSE, IsCEPFirstTimeCustomer |-> FALSE, hasRider |-> TRUE,
    premiumType |-> None, promoCode |-> None, CEPReferralCode |-> None,
    withChildren |-> FALSE, withSpouse |-> FALSE,
    internal |-> Some([ email |-> None, contact_mobile |-> None, insured_party |-> None ]) ]

FamilyLabels ==
  { "premiumType", "insured_party", "policyInceptionDate", "email", "contact_mobile",
    "promoCode" }

\* QUESTION_MAP of the family agent
FamilyQuestion(key) ==
  CASE key = "premiumType" ->
         "Are you looking for a **Monthly** or an **Annual** family insurance plan?"
    [] key = "insured_party" ->
         "Who is this plan for? (**Myself**, **Myself with Child(ren)**, or **Family**)"
    [] key = "policyInceptionDate" ->
         "What date would you like the plan to start? (YYYY-MM-DD)"
    [] key = "email" -> "What is your email address?"
    [] key = "contact_mobile" -> "And your 8-digit Singapore mobile number?"
    [] key = "promoCode" -> "Finally, do you have a promocode? (If not, just say 'no')"

FamilyAnswered(p, c, err) ==
  [ payload |-> p, context |-> c, validation_error |-> err, raised |-> FALSE ]

FamilyRaised(p, c) ==
  [ payload |-> p, context |-> c, validation_error |-> None, raised |-> TRUE ]

\* lines 80-87: the insured-party answer
InsuredPartyAnswer(answer, p) ==
  LET q == [ p EXCEPT !.internal = Some([ Val(@) EXCEPT !.insured_party = Some(answer) ]) ]
  IN IF Contains(answer, "myself with child")
     THEN [ q EXCEPT !.withChildren = TRUE, !.withSpouse = FALSE ]
     ELSE IF Contains(answer, "family")
     THEN [ q EXCEPT !.withChildren = TRUE, !.withSpouse = TRUE ]
     ELSE [ q EXCEPT !.withChildren = FALSE, !.withSpouse = FALSE ]

\* lines 89-95: the policy start date answer
InceptionDateAnswer(answer, p, c) ==
  LET date_str == Replace(answer, "/", "-")
  IN IF IsNone(ParseDate(date_str))
     THEN FamilyAnswered(Some(p), c,
            Some("That doesn't look like a valid date format. Please use YYYY-MM-DD."))
     ELSE FamilyAnswered(Some([ p EXCEPT !.policyInceptionDate = Some(date_str) ]), c, None)

\* line 103: the promo code answer
PromoAnswer(user_message, answer) == IF answer = "no" THEN "" ELSE Strip(user_message)

\* process_user_answer of the family agent
FamilyProcessAnswer(user_message, p, c) ==
  LET last_q == Val(c.current_question_key)
      answer == Lower(Strip(user_message))
      NeedsPayload == last_q \in { "premiumType", "insured_party", "policyInceptionDate",
                                   "email", "contact_mobile", "promoCode" }
      NeedsInternal == last_q \in { "insured_party", "email", "contact_mobile" }
  IN IF NeedsPayload /\ IsNone(p) THEN FamilyRaised(p, c)
     ELSE IF NeedsInternal /\ IsNone(Val(p).internal) THEN FamilyRaised(p, c)
     ELSE CASE last_q = "premiumType" ->
                 FamilyAnswered(Some([ Val(p) EXCEPT !.premiumType =
                     Some(IF Contains(answer, "annual") THEN "annual" ELSE "monthly") ]),
                   c, None)
            [] last_q = "insured_party" ->
                 FamilyAnswered(Some(InsuredPartyAnswer(answer, Val(p))), c, None)
            [] last_q = "policyInceptionDate" -> InceptionDateAnswer(answer, Val(p), c)
            [] last_q = "email" ->
                 FamilyAnswered(Some([ Val(p) EXCEPT !.internal =
                     Some([ Val(@) EXCEPT !.email = Some(Strip(user_message)) ]) ]), c, None)
            [] last_q = "contact_mobile" ->
                 FamilyAnswered(Some([ Val(p) EXCEPT !.internal =
                     Some([ Val(@) EXCEPT !.contact_mobile = Some(Strip(user_message)) ]) ]),
                   c, None)
            [] last_q = "promoCode" ->
                 FamilyAnswered(Some([ Val(p) EXCEPT !.promoCode =
                     Some(PromoAnswer(user_message, answer)) ]), c, None)
            [] OTHER -> FamilyAnswered(p, c, None)

\* payload.get('_internal', {}).get(key)
InternalGet(p, key) == IF IsNone(p.internal) THEN None ELSE Val(p.internal)[key]

\* A resolver that tests the promo code with "not x" instead of "is None":
\* C11_FamilyResolver tells it from the real one
FamilyNextTruthy(p) ==
  IF IsNone(p.premiumType) THEN "premiumType"
  ELSE IF IsNone(InternalGet(p, "insured_party")) THEN "insured_party"
  ELSE IF IsNone(p.policyInceptionDate) THEN "policyInceptionDate"
  ELSE IF IsNone(InternalGet(p, "email")) THEN "email"
  ELSE IF IsNone(InternalGet(p, "contact_mobile")) THEN "contact_mobile"
  ELSE IF Falsy(p.promoCode) THEN "promoCode"
  ELSE "DONE"

\* determine_next_question of the family agent
FamilyNextQuestion(p) ==
  IF IsNone(p.premiumType) THEN "premiumType"
  ELSE IF IsNone(InternalGet(p, "insured_party")) THEN "insured_party"
  ELSE IF IsNone(p.policyInceptionDate) THEN "policyInceptionDate"
  ELSE IF IsNone(InternalGet(p, "email")) THEN "email"
  ELSE IF IsNone(InternalGet(p, "contact_mobile")) THEN "contact_mobile"
  ELSE IF IsNone(p.promoCode) THEN "promoCode"
  ELSE "DONE"

\* finalize_payload of the family agent
FamilyFinalize(p) == [ p EXCEPT !.internal = None ]

\* ------------------------------------------------------------------------
\* Session store (app/session_manager.py). The store holds the session's
\* document under its key, or nothing (None): before first contact and after
\* the key's time-to-live has run out. chat_history and last_active are not
\* fields of the modelled document: no handler reads them to decide anything.
\* ------------------------------------------------------------------------
\* json.loads(session_data_str) if session_data_str else get_default_session()
Doc(st) == IF IsNone(st) THEN get_default_session ELSE Val(st)

\* get_session: the document read; an absent key is created with the default
get_session(st) == Some(Doc(st))

\* the keyword arguments of update_conversation_context(session_id, **context):
\* one per key of the context dict
Kwargs(c) == [ k \in { j \in ContextKeys : ~IsNone(c[j]) } |-> c[k] ]

\* lines 215-216: for key, value in kwargs.items(): context[key] = value
MergeContext(c, kwargs) ==
  [ k \in ContextKeys |-> IF k \in DOMAIN kwargs THEN kwargs[k] ELSE c[k] ]

\* A reset that keeps the conversation context, as one built on
\* _update_session_field would: C1_GlobalReset tells it from the real one
ResetKeepingContext(st) ==
  Some([ get_default_session EXCEPT
           !.conversation_context = Doc(st).conversation_context ])

\* clear_session_for_global_reset: an unconditional SET of the default
clear_session_for_global_reset(st) == Some(get_default_session)

\* _update_session_field(session_id, "stage", stage)
set_stage(st, stage) == Some([ Doc(st) EXCEPT !.stage = stage ])

set_collected_info(st, key, value) ==
  Some([ Doc(st) EXCEPT !.collected_info[key] = value ])

update_conversation_context(st, kwargs) ==
  Some([ Doc(st) EXCEPT !.conversation_context = MergeContext(@, kwargs) ])

\* update_session: appends the exchange to chat_history; the key is written
update_session(st) == Some(Doc(st))

\* One store write a handler has planned
WReset == [ op |-> "reset" ]

WStage(stage) == [ op |-> "set_stage", value |-> stage ]

WContext(kwargs) == [ op |-> "update_context", kwargs |-> kwargs ]

WInfo(key, value) == [ op |-> "set_collected_info", key |-> key, value |-> value ]

WLog == [ op |-> "update_session" ]

Apply(st, w) ==
  CASE w.op = "reset" -> clear_session_for_global_reset(st)
    [] w.op = "set_stage" -> set_stage(st, w.value)
    [] w.op = "update_context" -> update_conversation_context(st, w.kwargs)
    [] w.op = "set_collected_info" -> set_collected_info(st, w.key, w.value)
    [] w.op = "update_session" -> update_session(st)

\* ------------------------------------------------------------------------
\* Replies
\* ------------------------------------------------------------------------
Reply(kind, text) == [ kind |-> kind, text |-> text ]

NoReply == Reply("none", "")

Greeting ==
  Reply("greeting",
        "Hello! I can help you with Travel or Family insurance. Which one are you interested in?")

PickProduct ==
  Reply("pick_product",
        "I can help with Travel or Family insurance. Which product are you interested in?")

Fallback ==
  Reply("fallback",
        "I'm not sure how to help with that. Please start by telling me if you need Travel or Family insurance.")

Apology ==
  Reply("apology", "I'm sorry, a critical error occurred. Please start over by saying 'hi'.")

TravelDone ==
  Reply("done", "Thank you, I have all the information. Generating your quote now...")

FamilyDone == Reply("done", "Thank you. Let me get the price for you...")

LostProduct ==
  Reply("lost_product", "I'm sorry, I've lost track of which product we were discussing.")

LostDetails == Reply("lost_details", "I seem to have lost your details. Let's start over.")

QuoteCritical ==
  Reply("quote", "{success: false, errors: [A critical error occurred while generating your quote.]}")

\* the provider's response, returned raw
QuoteResponse(api) ==
  Reply("quote", IF api = "ok" THEN "{success: true, data: ...}"
                 ELSE "{success: false, errors: ...}")

\* ------------------------------------------------------------------------
\* What an agent decides from the session it read: the store writes it will
\* make, in order, its reply, whether it returned (FALSE: it raised, and
\* orchestrate_chat answers with the apology and skips update_session), and
\* the label whose answer it accepted (None: none).
\* ------------------------------------------------------------------------
Plan(todo, reply, accepted) ==
  [ todo |-> todo, reply |-> reply, returned |-> TRUE, accepted |-> accepted ]

RaisedAfter(todo) ==
  [ todo |-> todo, reply |-> Apology, returned |-> FALSE, accepted |-> None ]

DigitChar(d) == SubSeq("0123456789", d + 1, d + 1)

\* str(n)
RECURSIVE Str(_)
Str(n) ==
  IF n < 0 THEN "-" \o Str(0 - n)
  ELSE IF n < 10 THEN DigitChar(n)
  ELSE Str(n \div 10) \o DigitChar(n % 10)

\* lines 116-118: the question text, with its household number
TravelQuestionText(key, c) ==
  LET question_text == TravelQuestion(key)
  IN IF Contains(question_text, "#num")
     THEN Replace(question_text, "#num", Str(GetOr0(c.households_collected) + 1))
     ELSE question_text

\* An agent that stores the record before it finalizes it:
\* C15_FailSoft tells it from the real one
TravelAdvanceStoring(last_q, r) ==
  LET saved == WContext(Kwargs(r.context))
      next_question_key == TravelNextQuestion(r.payload, r.context)
      final == TravelFinalize(Val(r.payload), r.context)
  IN IF next_question_key = "RAISE" THEN RaisedAfter(<< saved >>)
     ELSE IF next_question_key = "DONE"
     THEN IF final.raised THEN RaisedAfter(<< saved, WInfo("payload", r.payload) >>)
          ELSE Plan(<< saved, WInfo("payload", Some(final.payload)),
                       WStage("quote_generation"),
                       WContext("current_question_key" :> None) >>,
                    TravelDone, Some(last_q))
     ELSE Plan(<< saved, WContext("current_question_key" :> Some(next_question_key)),
                  WInfo("payload", r.payload) >>,
               Reply("question", TravelQuestionText(next_question_key, r.context)),
               Some(last_q))

\* run_travel_payload_agent, lines 103-122: after an accepted answer
TravelAdvance(last_q, r) ==
  LET saved == WContext(Kwargs(r.context))
      next_question_key == TravelNextQuestion(r.payload, r.context)
      final == TravelFinalize(Val(r.payload), r.context)
  IN IF next_question_key = "RAISE" THEN RaisedAfter(<< saved >>)
     ELSE IF next_question_key = "DONE"
     THEN IF final.raised THEN RaisedAfter(<< saved >>)
          ELSE Plan(<< saved, WInfo("payload", Some(final.payload)),
                       WStage("quote_generation"),
                       WContext("current_question_key" :> None) >>,
                    TravelDone, Some(last_q))
     ELSE Plan(<< saved, WContext("current_question_key" :> Some(next_question_key)),
                  WInfo("payload", r.payload) >>,
               Reply("question", TravelQuestionText(next_question_key, r.context)),
               Some(last_q))

\* run_travel_payload_agent, from the session it read
\* run_travel_payload_agent, lines 96-101: r is what process_user_answer
\* handed back
TravelProcessed(last_q, r) ==
  IF r.raised THEN RaisedAfter(<< >>)
  ELSE IF r.early THEN Plan(<< >>, Reply("error", Val(r.validation_error)), None)
  ELSE IF ~IsNone(r.validation_error)
  THEN Plan(<< WContext(Kwargs(r.context)) >>,
            Reply("error", Val(r.validation_error)), None)
  ELSE TravelAdvance(last_q, r)

\* run_travel_payload_agent, from the session it read
TravelPlan(user_message, doc) ==
  IF Falsy(doc.conversation_context.current_question_key)
  THEN Plan(<< WContext("current_question_key" :> Some("policy_type")) >>,
            Reply("question", TravelQuestion("policy_type")), None)
  ELSE TravelProcessed(Val(doc.conversation_context.current_question_key),
                       TravelProcessAnswer(user_message, doc.collected_info.payload,
                                           doc.conversation_context))

\* A family agent that leaves the marker in place at DONE:
\* C28_MarkerMatchesStage tells it from the real one
FamilyAdvanceKeepingMarker(last_q, r) ==
  LET next_question_key == FamilyNextQuestion(Val(r.payload))
  IN IF IsNone(r.payload) THEN RaisedAfter(<< >>)
     ELSE IF next_question_key = "DONE"
     THEN Plan(<< WInfo("family_payload", Some(FamilyFinalize(Val(r.payload)))),
                  WStage("quote_generation") >>,
               FamilyDone, Some(last_q))
     ELSE Plan(<< WContext("current_question_key" :> Some(next_question_key)),
                  WInfo("family_payload", r.payload) >>,
               Reply("question", FamilyQuestion(next_question_key)), Some(last_q))

\* run_family_payload_agent, lines 53-69: after an accepted answer
FamilyAdvance(last_q, r) ==
  LET next_question_key == FamilyNextQuestion(Val(r.payload))
  IN IF IsNone(r.payload) THEN RaisedAfter(<< >>)
     ELSE IF next_question_key = "DONE"
     THEN Plan(<< WInfo("family_payload", Some(FamilyFinalize(Val(r.payload)))),
                  WStage("quote_generation"),
                  WContext("current_question_key" :> None) >>,
               FamilyDone, Some(last_q))
     ELSE Plan(<< WContext("current_question_key" :> Some(next_question_key)),
                  WInfo("family_payload", r.payload) >>,
               Reply("question", FamilyQuestion(next_question_key)), Some(last_q))

\* run_family_payload_agent, from the session it read
FamilyPlan(user_message, doc) ==
  LET fresh == Falsy(doc.conversation_context.current_question_key)
      context == IF fresh
                 THEN [ doc.conversation_context EXCEPT
                          !.current_question_key = Some("premiumType") ]
                 ELSE doc.conversation_context
      payload == IF fresh THEN Some(get_family_payload_template)
                 ELSE doc.collected_info.family_payload
      r == FamilyProcessAnswer(user_message, payload, context)
  IN IF r.raised THEN RaisedAfter(<< >>)
     ELSE IF ~IsNone(r.validation_error)
     THEN Plan(<< >>, Reply("error", Val(r.validation_error)), None)
     ELSE FamilyAdvance(Val(context.current_question_key), r)

\* ------------------------------------------------------------------------
\* orchestrate_chat as a sequence of steps, one store operation per step.
\* A handler's local state: pc names the store operation it will do next.
\* ------------------------------------------------------------------------
NoClass == [ product |-> "UNKNOWN", intent |-> "none" ]

IdleHandler ==
  [ pc |-> "idle", msg |-> "", cls |-> NoClass, api |-> "ok", stage |-> "",
    agent |-> "", product |-> None, todo |-> << >>, after |-> "done",
    reply |-> NoReply, returned |-> TRUE, accepted |-> None, began |-> FALSE,
    calls |-> {}, creating |-> FALSE ]

\* line 14: user_message.strip().lower() in ["hi", "hello"]
IsReset(user_message) == Lower(Strip(user_message)) \in { "hi", "hello" }

\* the next planned write, or the step that follows the last one
Continue(l) ==
  IF Len(l.todo) > 0 THEN [ l EXCEPT !.pc = "write" ] ELSE [ l EXCEPT !.pc = l.after ]

\* lines 59-60: update_session, then return the reply
Finish(l, reply) ==
  Continue([ l EXCEPT !.reply = reply, !.todo = << WLog >>, !.after = "done" ])

\* lines 13-20: the message arrives; cls and api are what the classifier and
\* the quote API will answer if this handler calls them
Begin(user_message, cls, api) ==
  LET l == [ IdleHandler EXCEPT !.msg = user_message, !.cls = cls, !.api = api ]
  IN IF IsReset(user_message)
     THEN Continue([ l EXCEPT !.todo = << WReset, WLog >>, !.reply = Greeting,
                              !.calls = { "reset" } ])
     ELSE [ l EXCEPT !.pc = "get_stage" ]

\* lines 34-43: a classified product starts that product's collection
StartCollection(l, product, stage) ==
  Continue([ l EXCEPT !.agent = product, !.began = TRUE, !.after = "agent_read",
                      !.todo = << WStage(stage),
                                  WContext("primary_product" :> Some(product)) >> ])

\* A dispatch that looks at the product before the greeting intent:
\* C18_DispatchFromInitial tells it from the real one
DispatchProductFirst(l) ==
  IF l.stage \in { "", "initial" }
  THEN LET k == [ l EXCEPT !.calls = @ \cup { "classifier" } ]
       IN IF l.cls.product = "TRAVEL"
            THEN StartCollection(k, "TRAVEL", "travel_collection")
          ELSE IF l.cls.product = "FAMILY"
            THEN StartCollection(k, "FAMILY", "family_collection")
          ELSE IF l.cls.intent = "greeting" THEN Finish(k, Greeting)
          ELSE Finish(k, PickProduct)
  ELSE IF l.stage = "travel_collection" THEN [ l EXCEPT !.agent = "TRAVEL", !.pc = "agent_read" ]
  ELSE IF l.stage = "family_collection" THEN [ l EXCEPT !.agent = "FAMILY", !.pc = "agent_read" ]
  ELSE IF l.stage = "quote_generation" THEN [ l EXCEPT !.pc = "quote_read" ]
  ELSE Finish(l, Fallback)

\* lines 23-57: the dispatch on the stage read
Dispatch(l) ==
  IF l.stage \in { "", "initial" }
  THEN LET k == [ l EXCEPT !.calls = @ \cup { "classifier" } ]
       IN IF l.cls.intent = "greeting" THEN Finish(k, Greeting)
          ELSE IF l.cls.product = "TRAVEL"
            THEN StartCollection(k, "TRAVEL", "travel_collection")
          ELSE IF l.cls.product = "FAMILY"
            THEN StartCollection(k, "FAMILY", "family_collection")
          ELSE Finish(k, PickProduct)
  ELSE IF l.stage = "travel_collection" THEN [ l EXCEPT !.agent = "TRAVEL", !.pc = "agent_read" ]
  ELSE IF l.stage = "family_collection" THEN [ l EXCEPT !.agent = "FAMILY", !.pc = "agent_read" ]
  ELSE IF l.stage = "quote_generation" THEN [ l EXCEPT !.pc = "quote_read" ]
  ELSE Finish(l, Fallback)

\* the agent has read the session: its writes follow, then update_session
\* unless it raised
WithPlan(l, plan) ==
  Continue([ l EXCEPT !.todo = plan.todo \o (IF plan.returned THEN << WLog >> ELSE << >>),
                      !.reply = plan.reply, !.returned = plan.returned,
                      !.accepted = plan.accepted, !.after = "done",
                      !.calls = @ \cup { IF l.agent = "TRAVEL" THEN "travel_agent"
                                         ELSE "family_agent" } ])

\* run_quote_generation, lines 46-51
QuoteRead(l, doc) ==
  LET product == doc.conversation_context.primary_product
      k == [ l EXCEPT !.calls = @ \cup { "quote_manager" } ]
  IN IF Falsy(product) THEN Finish(k, LostProduct)
     ELSE [ k EXCEPT !.product = product, !.pc = "quote_info" ]

\* run_quote_generation, lines 53-78: api is "ok", "failed" (the provider
\* reports a failure or the call fails) or "malformed" (a response the code
\* cannot read, which raises into the except branch)
QuoteSubmit(l, doc) ==
  LET payload_key == IF l.product = Some("FAMILY") THEN "family_payload" ELSE "payload"
      final_payload == doc.collected_info[payload_key]
      k == [ l EXCEPT !.calls = @ \cup { "quote_api" }, !.after = "done",
                      !.todo = << WStage("initial"), WLog >> ]
  IN IF IsNone(final_payload) THEN Finish(l, LostDetails)
     ELSE IF l.api = "malformed" THEN Continue([ k EXCEPT !.reply = QuoteCritical ])
     ELSE Continue([ k EXCEPT !.reply = QuoteResponse(l.api) ])

\* get_session has returned the document of store st to handler l, which
\* goes on with it
Found(st, l) ==
  CASE l.pc = "get_stage" ->
         << st, [ l EXCEPT !.stage = Doc(st).stage, !.pc = "get_history" ] >>
    [] l.pc = "get_history" -> << st, Dispatch(l) >>
    [] l.pc = "agent_read" ->
         << st,
            WithPlan(l, IF l.agent = "TRAVEL" THEN TravelPlan(l.msg, Doc(st))
                        ELSE FamilyPlan(l.msg, Doc(st))) >>
    [] l.pc = "quote_read" -> << st, QuoteRead(l, Doc(st)) >>
    [] l.pc = "quote_info" -> << st, QuoteSubmit(l, Doc(st)) >>

\* One step of a handler on the store: <<store, handler>> after the step.
\* A write is one WATCH/MULTI/EXEC transaction. A get_session that finds no
\* key (session_manager.py:60-62) takes a second step for its plain SET of
\* the default document (line 66), whatever the key holds by then.
Step(st, l) ==
  IF l.pc = "write"
  THEN << Apply(st, Head(l.todo)), Continue([ l EXCEPT !.todo = Tail(@) ]) >>
  ELSE IF l.creating
  THEN Found(get_session(None), [ l EXCEPT !.creating = FALSE ])
  ELSE IF IsNone(st)
  THEN << st, [ l EXCEPT !.creating = TRUE ] >>
  ELSE Found(get_session(st), l)

\* a handler run alone, from its arrival to its return
RECURSIVE RunToEnd(_)
RunToEnd(r) == IF r[2].pc = "done" THEN r ELSE RunToEnd(Step(r[1], r[2]))

orchestrate_chat(st, user_message, cls, api) ==
  RunToEnd(<< st, Begin(user_message, cls, api) >>)

\* One step of a handler while the store cannot be reached. Every store
\* operation catches the exception and logs it: a read returns
\* get_default_session (session_manager.py:73-76), a write does nothing
\* (lines 121-122, 158-159, 196-197, 227-228, 272-273).
StepUnavailable(st, l) ==
  IF l.pc = "write"
  THEN << st, Continue([ l EXCEPT !.todo = Tail(@) ]) >>
  ELSE << st, Found(None, [ l EXCEPT !.creating = FALSE ])[2] >>

\* a handler run alone whose store becomes unreachable after its first n
\* store operations and stays so: << store, handler, whether an operation
\* failed >>
RECURSIVE RunWithOutage(_, _, _)
RunWithOutage(r, n, failed) ==
  IF r[2].pc = "done" THEN << r[1], r[2], failed >>
  ELSE IF n = 0 THEN RunWithOutage(StepUnavailable(r[1], r[2]), 0, TRUE)
  ELSE RunWithOutage(Step(r[1], r[2]), n - 1, failed)

\* ------------------------------------------------------------------------
\* State
\* ------------------------------------------------------------------------
VARIABLES
  store,   \* the session's document in Redis: None or Some(document)
  last,    \* the last message handled alone: its text, the reply returned,
           \* the stage the handler read and the collaborators it called
  trail,   \* the labels answered, in order, since the running collection began
  h,       \* the handlers in flight when messages are handled concurrently
  base     \* the store as it was when the handlers in flight began

vars == << store, last, trail, h, base >>

\* ------------------------------------------------------------------------
\* Inputs
\* ------------------------------------------------------------------------
\* the longest trail kept
MaxTrail == 14

ResetMessages == { "hi", " Hello " }

OpeningMessages == { "travel insurance please", "an annual family plan" }

\* what the classifier may answer (its failure is UNKNOWN / "unwanted")
Classifications ==
  { [ product |-> "TRAVEL", intent |-> "quote" ],
    [ product |-> "FAMILY", intent |-> "quote" ],
    [ product |-> "TRAVEL", intent |-> "greeting" ],
    [ product |-> "POLICY_CLAIM_STATUS", intent |-> "claim" ],
    [ product |-> "UNKNOWN", intent |-> "unwanted" ] }

ApiOutcomes == { "ok", "failed", "malformed" }

ElevenCountries ==
  "japan, france, korea, laos, fiji, india, italy, kenya, chile, egypt, cyprus"

TravelAnswers(q) ==
  CASE q = "policy_type" -> { "single trip", "Annual Multi-Trip" }
    [] q = "group_type_single" ->
         { "Yourself", "Family", "Group of Adults", "Group of Family", "households" }
    [] q = "group_type_annual" -> { "Yourself", "Family" }
    [] q = "zone" -> { "Asia", "Worldwide" }
    [] q = "num_adults" -> { "2", "3", "two" }
    [] q = "num_children" -> { "1", "6" }
    [] q = "num_adults_group" -> { "3" }
    [] q = "num_households" -> { "2" }
    [] q = "household_info" -> { "2,1", "1 and 0", "2" }
    [] q = "destination" -> { "Japan, France", "Japan, Atlantis, France", ElevenCountries }
    [] q = "start_date" -> { "2025/03/03", "soon" }
    [] q = "end_date" -> { "2025-03-01", "2025-03-03", "2025-03-07" }
    [] q = "addon_pre_ex" -> { "yes", "no" }
    [] q = "addon_ffm" -> { "no" }
    [] q = "addon_flight_delay" -> { "yes" }
    [] q = "coupon_code" -> { "no", "NOVA10" }
    [] q = "email" -> { "me@x.io" }
    [] q = "contact_mobile" -> { "91234567" }
    [] OTHER -> { "ok" }

FamilyAnswers(q) ==
  CASE q = "premiumType" -> { "Monthly", "Annual" }
    [] q = "insured_party" -> { "Myself", "Family" }
    [] q = "policyInceptionDate" -> { "2025/03/01", "soon" }
    [] q = "email" -> { "me@x.io" }
    [] q = "contact_mobile" -> { "91234567" }
    [] q = "promoCode" -> { "no", "NOVA10" }
    [] OTHER -> { "ok" }

\* the persisted stage and awaiting-field marker ("" when there is none)
Stage == Doc(store).stage

Context == Doc(store).conversation_context

Marker == IF IsNone(Context.current_question_key) THEN "" ELSE Val(Context.current_question_key)

\* ------------------------------------------------------------------------
\* One handler at a time: each action is one whole orchestrate_chat call
\* ------------------------------------------------------------------------
NoHandlers == [ i \in 1..3 |-> IdleHandler ]

NoLast == [ msg |-> "", reply |-> NoReply, stage |-> "", calls |-> {} ]

Init ==
  /\ store = None
  /\ last = NoLast
  /\ trail = << >>
  /\ h = NoHandlers
  /\ base = None

NewTrail(t, l) ==
  LET t0 == IF l.began \/ "reset" \in l.calls THEN << >> ELSE t
  IN IF IsNone(l.accepted) \/ Len(t0) >= MaxTrail THEN t0
     ELSE Append(t0, Val(l.accepted))

\* the handler has returned: r is <<store, handler>> at its return
Returned(user_message, r) ==
  /\ store' = r[1]
  /\ last' = [ msg |-> user_message, reply |-> r[2].reply, stage |-> r[2].stage,
               calls |-> r[2].calls ]
  /\ trail' = NewTrail(trail, r[2])
  /\ UNCHANGED << h, base >>

Handled(user_message, cls, api) ==
  Returned(user_message, orchestrate_chat(store, user_message, cls, api))

\* "hi" / "hello", in any state
GlobalReset ==
  /\ h = NoHandlers
  /\ \E m \in ResetMessages : Handled(m, NoClass, "ok")

\* a message in stage initial (or on first contact): classified
Classify ==
  /\ Stage = "initial"
  /\ \E m \in OpeningMessages, cls \in Classifications : Handled(m, cls, "ok")

TravelAnswer ==
  /\ Stage = "travel_collection"
  /\ \E m \in TravelAnswers(Marker) : Handled(m, NoClass, "ok")

FamilyAnswer ==
  /\ Stage = "family_collection"
  /\ \E m \in FamilyAnswers(Marker) : Handled(m, NoClass, "ok")

RequestQuote ==
  /\ Stage = "quote_generation"
  /\ \E api \in ApiOutcomes : Handled("ok", NoClass, api)

\* the key's time-to-live runs out between two messages
Expire ==
  /\ ~IsNone(store)
  /\ store' = None
  /\ last' = NoLast
  /\ trail' = << >>
  /\ UNCHANGED << h, base >>

Next ==
  \/ GlobalReset
  \/ Classify
  \/ TravelAnswer
  \/ FamilyAnswer
  \/ RequestQuote
  \/ Expire

Spec == Init /\ [][Next]_vars

\* ------------------------------------------------------------------------
\* Handlers in flight together. chat_endpoint is a plain def, so the server
\* runs each request's orchestrate_chat on a worker thread: the handlers of
\* one session interleave at their store operations. Handlers 1 and 2 may
\* overlap; handler 3 is the next message, sent after both have returned.
\* ------------------------------------------------------------------------
TravelQuote == [ product |-> "TRAVEL", intent |-> "quote" ]

\* the conversation that builds the sessions the handlers find
Script ==
  << "travel insurance please", "Annual Multi-Trip", "Yourself", "Asia", "yes",
     "me@x.io", "91234567" >>

RECURSIVE StoreAfter(_)
StoreAfter(k) ==
  IF k = 0 THEN None
  ELSE orchestrate_chat(StoreAfter(k - 1), Script[k], TravelQuote, "ok")[1]

\* what a user may send while q is awaited: the answer to q, or already the
\* answer to the question that follows it
RaceAnswers(q) ==
  CASE q = "policy_type" -> { "Annual Multi-Trip", "Yourself" }
    [] q = "group_type_annual" -> { "Yourself", "Asia" }
    [] q = "zone" -> { "Asia", "yes" }
    [] q = "addon_pre_ex" -> { "yes", "me@x.io" }
    [] q = "email" -> { "me@x.io", "91234567" }
    [] q = "contact_mobile" -> { "91234567" }
    [] OTHER -> { "travel insurance please" }

InitConc ==
  /\ \E k \in 0..Len(Script) : store = StoreAfter(k) /\ base = StoreAfter(k)
  /\ last = NoLast
  /\ trail = << >>
  /\ h = NoHandlers

\* a message arrives and its handler begins
Arrive ==
  \E i \in DOMAIN h, m \in RaceAnswers(Marker) \cup { "hi" } :
    /\ h[i].pc = "idle"
    /\ \A j \in 1..(i - 1) : h[j].pc # "idle"
    /\ i = 3 => h[1].pc = "done" /\ h[2].pc = "done"
    /\ h' = [ h EXCEPT ![i] = Begin(m, TravelQuote, "ok") ]
    /\ UNCHANGED << store, last, trail, base >>

\* r is <<store, handler>> after handler i's step
Stepped(i, r) ==
  /\ store' = r[1]
  /\ h' = [ h EXCEPT ![i] = r[2] ]
  /\ UNCHANGED << last, trail, base >>

\* a handler in flight does its next store operation
StepHandler ==
  \E i \in DOMAIN h :
    /\ h[i].pc \notin { "idle", "done" }
    /\ Stepped(i, Step(store, h[i]))

NextConc ==
  \/ Arrive
  \/ StepHandler

SpecConc == InitConc /\ [][NextConc]_vars

\* ------------------------------------------------------------------------
\* The chat history. No handler decides anything from chat_history, so the
\* specifications above leave it out of the document; here the document is
\* its chat_history alone, and a conversation is followed past the cap. The
\* user's messages are numbered, so that every entry differs from the others.
\* ------------------------------------------------------------------------
\* session_manager.py:101: the entries kept
HistoryCap == 100

\* the numbered messages of one conversation
MaxMessages == 52

\* the chat_history of the stored document (get_default_session: [])
ChatHistory(st) == IF IsNone(st) THEN << >> ELSE Val(st).chat_history

\* seq[:n]: an update_session that keeps the oldest entries instead;
\* C21_HistoryCap tells it from the real one
FirstEntries(seq, n) ==
  IF Len(seq) <= n THEN seq ELSE SubSeq(seq, 1, n)

\* seq[-n:]
LastEntries(seq, n) ==
  IF Len(seq) <= n THEN seq ELSE SubSeq(seq, Len(seq) - n + 1, Len(seq))

\* update_session, lines 97-101, on the chat_history it read
AppendExchange(history, user_message, agent_response) ==
  LastEntries(history \o << << "user", user_message >>, << "assistant", agent_response >> >>,
              HistoryCap)

\* the number of the last numbered message in the history, 0 if none
LastNumber(history) ==
  IF Len(history) < 2 \/ IsNone(ParseInt(history[Len(history) - 1][2])) THEN 0
  ELSE Val(ParseInt(history[Len(history) - 1][2]))

\* what the assistant answers to a numbered message
AnswerTo(m) == Reply("answer", "re " \o m)

InitHistory ==
  /\ store = None
  /\ last = NoLast
  /\ trail = << >>
  /\ h = NoHandlers
  /\ base = None

\* orchestrate_chat has handled user_message: update_session (line 59) has
\* appended the exchange to the stored history
Logged(history, user_message, reply) ==
  /\ store' = Some([ chat_history |-> AppendExchange(history, user_message, reply.text) ])
  /\ last' = [ msg |-> user_message, reply |-> reply, stage |-> "", calls |-> {} ]
  /\ UNCHANGED << trail, h, base >>

\* a message is handled and answered
Exchange ==
  /\ LastNumber(ChatHistory(store)) < MaxMessages
  /\ Logged(ChatHistory(store), Str(LastNumber(ChatHistory(store)) + 1),
            AnswerTo(Str(LastNumber(ChatHistory(store)) + 1)))

\* lines 14-18: clear_session_for_global_reset writes the default document
\* (chat_history []), then update_session appends the greeting exchange
ResetExchange ==
  /\ ~IsNone(store)
  /\ Logged(<< >>, "hi", Greeting)

\* lines 62-64: handling raised; the apology is returned without update_session
FailedExchange ==
  /\ ~IsNone(store)
  /\ last' = [ msg |-> "two", reply |-> Apology, stage |-> "", calls |-> {} ]
  /\ UNCHANGED << store, trail, h, base >>

NextHistory ==
  \/ Exchange
  \/ ResetExchange
  \/ FailedExchange
  \/ Expire

SpecHistory == InitHistory /\ [][NextHistory]_vars

\* ------------------------------------------------------------------------
\* The watch-based store operations, command by command
\* (session_manager.py:78-122, 134-159, 170-197, 199-228). Each one runs
\* WATCH, GET, computes the new document from the one it read, and sends
\* MULTI/SET/EXPIRE/EXEC; EXEC raises WatchError when the key was written
\* after the WATCH, and the loop starts again. Here h holds the callers,
\* base the document the session held at first and trail the callers in the
\* order their transactions committed.
\* ------------------------------------------------------------------------
WExchange(user_message, agent_response) ==
  [ op |-> "update_session", user_message |-> user_message,
    agent_response |-> agent_response ]

\* the document an operation computes from the one it read
Modified(session, w) ==
  IF w.op = "update_session"
  THEN [ session EXCEPT
           !.chat_history = AppendExchange(@, w.user_message, w.agent_response) ]
  ELSE Val(Apply(Some(session), w))

\* an existing session that has one exchange in its history
ExistingSession ==
  [ stage |-> "travel_collection",
    collected_info |-> [ payload |-> None, family_payload |-> None ],
    conversation_context |->
      [ DefaultContext EXCEPT !.primary_product = Some("TRAVEL"),
                              !.current_question_key = Some("policy_type") ],
    chat_history |-> << << "user", "travel" >>, << "assistant", "which plan" >> >> ]

\* the operations the callers issue
WatchedWrites ==
  { WStage("quote_generation"),
    WInfo("payload", Some("record")),
    WContext("current_question_key" :> Some("email")),
    WContext("current_question_key" :> None @@ "last_intent" :> Some("quote")),
    WExchange("one", "re one"),
    WExchange("two", "re two") }

Callers == 1..3

IdleCaller == [ pc |-> "idle", w |-> WReset, session |-> None, modified |-> FALSE ]

\* an EXEC that does not honour the WATCH; C30_WatchedSerial tells it from
\* the real one
pipe_execute_unwatched(st, p) ==
  << Some(Modified(Val(p.session), p.w)), [ p EXCEPT !.pc = "done" ] >>

\* pipe.execute(): the SET is applied unless the watched key was written;
\* WatchError sends the caller back to pipe.watch
pipe_execute(st, p) ==
  IF p.modified THEN << st, [ p EXCEPT !.pc = "watch" ] >>
  ELSE << Some(Modified(Val(p.session), p.w)), [ p EXCEPT !.pc = "done" ] >>

InitWatch ==
  /\ store = Some(ExistingSession)
  /\ last = NoLast
  /\ trail = << >>
  /\ h = [ i \in Callers |-> IdleCaller ]
  /\ base = Some(ExistingSession)

\* a caller enters one of the operations
CallOperation ==
  \E i \in Callers, w \in WatchedWrites :
    /\ h[i].pc = "idle"
    /\ h' = [ h EXCEPT ![i] = [ @ EXCEPT !.pc = "watch", !.w = w ] ]
    /\ UNCHANGED << store, last, trail, base >>

\* pipe.watch(session_key)
Watch ==
  \E i \in Callers :
    /\ h[i].pc = "watch"
    /\ h' = [ h EXCEPT ![i] = [ @ EXCEPT !.pc = "get", !.modified = FALSE ] ]
    /\ UNCHANGED << store, last, trail, base >>

\* pipe.get(session_key) and json.loads
Get ==
  \E i \in Callers :
    /\ h[i].pc = "get"
    /\ h' = [ h EXCEPT ![i] = [ @ EXCEPT !.pc = "execute", !.session = store ] ]
    /\ UNCHANGED << store, last, trail, base >>

\* an EXEC whose failure also counts as a write to the key, as if the
\* aborted transaction had touched it; C31_RetryProgress tells it from the
\* real one
ExecutedTouching(i, r) ==
  /\ store' = r[1]
  /\ h' = [ j \in Callers |->
            IF j = i THEN r[2]
            ELSE IF h[j].pc \in { "get", "execute" }
            THEN [ h[j] EXCEPT !.modified = TRUE ]
            ELSE h[j] ]
  /\ trail' = IF r[2].pc = "done" THEN Append(trail, i) ELSE trail
  /\ UNCHANGED << last, base >>

\* caller i has sent EXEC with outcome r; a SET that was applied marks the
\* key as written for every caller watching it
Executed(i, r) ==
  /\ store' = r[1]
  /\ h' = [ j \in Callers |->
            IF j = i THEN r[2]
            ELSE IF r[2].pc = "done" /\ h[j].pc \in { "get", "execute" }
            THEN [ h[j] EXCEPT !.modified = TRUE ]
            ELSE h[j] ]
  /\ trail' = IF r[2].pc = "done" THEN Append(trail, i) ELSE trail
  /\ UNCHANGED << last, base >>

Execute ==
  \E i \in Callers :
    /\ h[i].pc = "execute"
    /\ Executed(i, pipe_execute(store, h[i]))

NextWatch ==
  \/ CallOperation
  \/ Watch
  \/ Get
  \/ Execute

SpecWatch == InitWatch /\ [][NextWatch]_vars

\* ------------------------------------------------------------------------
\* The retry loops (while True ... except redis.WatchError: continue) with
\* competing plain SETs. Here last[i] is the number of writes that had
\* committed when caller i issued its WATCH, base the number of plain SETs
\* so far, and trail the writers in commit order (0 is a plain SET).
\* ------------------------------------------------------------------------
\* the most plain SETs that compete with the callers
MaxResets == 1

\* the default document with its chat_history (session_manager.py:38-49)
ClearedSession == ("chat_history" :> << >>) @@ get_default_session

\* the operations the callers issue while plain SETs compete
RetriedWrites == { WStage("quote_generation"), WExchange("one", "re one") }

InitRetry ==
  /\ store = Some(ExistingSession)
  /\ last = [ i \in Callers |-> 0 ]
  /\ trail = << >>
  /\ h = [ i \in Callers |-> IdleCaller ]
  /\ base = 0

\* a caller enters one of the operations
EnterOperation ==
  \E i \in Callers, w \in RetriedWrites :
    /\ h[i].pc = "idle"
    /\ h' = [ h EXCEPT ![i] = [ @ EXCEPT !.pc = "watch", !.w = w ] ]
    /\ UNCHANGED << store, last, trail, base >>

\* pipe.watch(session_key), at the start of the loop and after a WatchError
WatchAgain ==
  \E i \in Callers :
    /\ h[i].pc = "watch"
    /\ h' = [ h EXCEPT ![i] = [ @ EXCEPT !.pc = "get", !.modified = FALSE ] ]
    /\ last' = [ last EXCEPT ![i] = Len(trail) ]
    /\ UNCHANGED << store, trail, base >>

\* a plain SET by another request (clear_session_for_global_reset, line 270):
\* it is not conditional and marks the key as written for every watcher
CompetingSet ==
  /\ base < MaxResets
  /\ store' = Some(ClearedSession)
  /\ h' = [ j \in Callers |->
            IF h[j].pc \in { "get", "execute" } THEN [ h[j] EXCEPT !.modified = TRUE ]
            ELSE h[j] ]
  /\ trail' = Append(trail, 0)
  /\ base' = base + 1
  /\ UNCHANGED last

NextRetry ==
  \/ EnterOperation
  \/ WatchAgain
  \/ Get
  \/ Execute
  \/ CompetingSet

\* caller i, once in an operation, takes its next step
Advance(i) == NextRetry /\ h[i].pc # "idle" /\ h'[i].pc # h[i].pc

\* every thread that entered an operation keeps running
SpecRetry ==
  InitRetry /\ [][NextRetry]_vars /\ \A i \in Callers : WF_vars(Advance(i))

\* ------------------------------------------------------------------------
\* Properties
\* ------------------------------------------------------------------------
\* C1: with one handler at a time, after a message whose trimmed, lower-cased
\* text is "hi" or "hello" has been handled, whatever the session held, the
\* persisted session is the default one (stage initial, collected_info empty,
\* default context), the reply is the canned greeting, and the handler called
\* nothing but the reset: no classifier, no product agent, no quote manager.
C1_GlobalReset ==
  IsReset(last.msg) =>
    /\ store = Some(get_default_session)
    /\ Stage = "initial"
    /\ Marker = ""
    /\ last.reply = Greeting
    /\ last.calls = { "reset" }

\* a reset written with blanks and a capital has been handled
C1_Witness ==
  /\ last.msg = " Hello "
  /\ last.reply = Greeting
  /\ store = Some(get_default_session)

\* the store after handler a's message, then handler b's, each handled alone
\* from the session both found
Serial(a, b) ==
  orchestrate_chat(orchestrate_chat(base, a.msg, a.cls, a.api)[1],
                   b.msg, b.cls, b.api)[1]

\* C2: when two handlers carrying different answers to a travel collection
\* have both returned, the persisted payload, context and awaiting-field marker are
\* those of handling the two messages one after the other, in one of the two
\* orders, whatever the interleaving of their store operations was.
C2_Serializable ==
  ( /\ h[1].pc = "done" /\ h[2].pc = "done" /\ h[3].pc = "idle"
    /\ ~IsReset(h[1].msg) /\ ~IsReset(h[2].msg) /\ h[1].msg # h[2].msg
    /\ Doc(base).stage = "travel_collection" )
  => store \in { Serial(h[1], h[2]), Serial(h[2], h[1]) }

\* C3: a message handled alone, whose handler read stage quote_generation,
\* leaves the persisted stage initial when the handler returns, whatever the
\* session held (a product label or not, a finalized record or not).
C3_QuoteStageLeft ==
  (h[3].pc = "done" /\ h[3].stage = "quote_generation") => Stage = "initial"

\* the labels answered in the running collection (all of them as long as
\* the trail is shorter than MaxTrail)
Asked == { trail[i] : i \in DOMAIN trail }

\* the branch the running travel collection took
PolicyChoice == Context.policy_type_choice

GroupChoice == Context.group_type_choice

\* C4: a travel collection begun by classification asks the group composition
\* right after the policy type, also in a session that was quoted before:
\* nothing the earlier conversation left in the context answers it.
C4_FreshCollection ==
  (Stage = "travel_collection" /\ trail = << "policy_type" >>)
  => Marker \in { "group_type_single", "group_type_annual" }

\* the fixed order of the travel fields, as the specification gives it
FieldOrder ==
  << "policy_type", "group_type", "zone", "num_adults", "num_children",
     "num_adults_group", "num_households", "household_info", "destination",
     "start_date", "end_date", "addon_pre_ex", "addon_ffm", "addon_flight_delay",
     "coupon_code", "email", "contact_mobile" >>

\* the field a question label asks for
FieldOf(q) == IF q \in { "group_type_single", "group_type_annual" } THEN "group_type" ELSE q

Position(f) == CHOOSE i \in DOMAIN FieldOrder : FieldOrder[i] = f

\* the fields the specification makes applicable to a branch
Applicable(f, policy, group) ==
  CASE f = "zone" -> policy = Some("annual")
    [] f \in { "destination", "start_date", "end_date" } -> policy # Some("annual")
    [] f \in { "num_adults", "num_children" } -> group = Some("family")
    [] f = "num_adults_group" -> policy # Some("annual") /\ group = Some("group_adults")
    [] f \in { "num_households", "household_info" } ->
         policy # Some("annual") /\ group = Some("group_family")
    [] OTHER -> TRUE

\* how many answers the branch needs: household_info once per household
ApplicableCount(policy, group, households) ==
  Cardinality({ f \in { FieldOrder[i] : i \in DOMAIN FieldOrder } :
                  Applicable(f, policy, group) })
  + (IF Applicable("household_info", policy, group) THEN households - 1 ELSE 0)

\* C5: a travel collection reaches DONE after as many accepted answers as
\* the chosen branch has applicable fields.
C5_DoneAfterApplicableFields ==
  (last.reply = TravelDone /\ Stage = "quote_generation" /\ Len(trail) < MaxTrail)
  => Len(trail) = ApplicableCount(PolicyChoice, GroupChoice, GetOr0(Context.num_households))

\* the validation errors of the awaited field the agents return
IsFieldError(reply) ==
  /\ reply.kind = "error"
  /\ \/ StartsWith(reply.text, "You can select a maximum of 10 countries.")
     \/ StartsWith(reply.text, "I don't have information for: ")
     \/ StartsWith(reply.text, "That doesn't look like a valid date format.")

\* C6: a message answered with a validation error of the awaited field
\* (destination, date) leaves the persisted payload, context and marker as
\* they were.
C6_RepromptIdempotent == [][IsFieldError(last'.reply) => store' = store]_vars

\* a destination with an unknown country was rejected and is awaited again
C6_Witness ==
  /\ last.msg = "Japan, Atlantis, France"
  /\ IsFieldError(last.reply)
  /\ Marker = "destination"

\* a stored date text parses as YYYY-MM-DD
Parses(o) == IsNone(o) \/ ~IsNone(ParseDate(Val(o)))

\* C7: only a date that parses as YYYY-MM-DD is ever stored: the travel
\* start and end date in the context, the family inception date in the record.
C7_StoredDatesParse ==
  /\ Parses(Context.start_date)
  /\ Parses(Context.end_date)
  /\ ~IsNone(Doc(store).collected_info.family_payload)
       => Parses(Val(Doc(store).collected_info.family_payload).policyInceptionDate)

\* C8: a travel collection does not await the email, or reach DONE, before
\* the coupon code was awaited and answered.
C8_CouponBeforeEmail ==
  /\ Len(trail) < MaxTrail
  /\ \/ (Stage = "travel_collection" /\ Marker = "email")
     \/ (Stage = "quote_generation" /\ last.reply = TravelDone)
  => "coupon_code" \in Asked

\* C9: when a travel collection is DONE, the finalized payload's
\* selectedAddOns holds all three add-on keys.
C9_AllAddOnsAtDone ==
  (Stage = "quote_generation" /\ last.reply = TravelDone)
  => { "preExAddOn", "lossFFMAddOn", "flightDelayAddOn" }
       \subseteq DOMAIN Val(Doc(store).collected_info.payload).travel.selectedAddOns

\* C10: the field a travel collection awaits is applicable to the chosen
\* branch, and every applicable field before it in the fixed order has been
\* answered.
C10_OrderAndBranches ==
  ( /\ Stage = "travel_collection" /\ Len(trail) < MaxTrail
    /\ Marker \in TravelLabels /\ Marker # "policy_type" )
  => /\ Applicable(FieldOf(Marker), PolicyChoice, GroupChoice)
     /\ \A i \in 1..(Position(FieldOf(Marker)) - 1) :
          Applicable(FieldOrder[i], PolicyChoice, GroupChoice)
            => FieldOrder[i] \in { FieldOf(q) : q \in Asked }

\* the fixed order of the family fields, as the specification gives it
FamilyOrder ==
  << "premiumType", "insured_party", "policyInceptionDate", "email", "contact_mobile",
     "promoCode" >>

\* the stored family record
FamilyRecord == Val(Doc(store).collected_info.family_payload)

\* whether field f of in-progress family record p still holds the unset sentinel
FamilyUnset(p, f) ==
  IF f \in { "insured_party", "email", "contact_mobile" }
  THEN IsNone(Val(p.internal)[f])
  ELSE IsNone(p[f])

\* the first field of the fixed order that is unset in p, or "DONE"
FirstUnset(p) ==
  IF \A i \in DOMAIN FamilyOrder : ~FamilyUnset(p, FamilyOrder[i]) THEN "DONE"
  ELSE FamilyOrder[CHOOSE i \in DOMAIN FamilyOrder :
                     /\ FamilyUnset(p, FamilyOrder[i])
                     /\ \A j \in 1..(i - 1) : ~FamilyUnset(p, FamilyOrder[j])]

\* C11: while a family collection runs, the awaited field is the first field
\* of the fixed order that is unset in the stored record (so at least one is
\* unset); when the collection is DONE all six fields have been answered and
\* the stored record's premiumType, policyInceptionDate and promoCode are set,
\* an empty (declined) promo code included.
C11_FamilyResolver ==
  /\ Stage = "family_collection"
       => /\ FirstUnset(FamilyRecord) # "DONE"
          /\ Marker = FirstUnset(FamilyRecord)
  /\ (Stage = "quote_generation" /\ last.reply = FamilyDone)
       => /\ Asked = FamilyLabels
          /\ ~IsNone(FamilyRecord.premiumType)
          /\ ~IsNone(FamilyRecord.policyInceptionDate)
          /\ ~IsNone(FamilyRecord.promoCode)

\* a family collection was completed by declining the promo code
C11_Witness ==
  /\ Stage = "quote_generation"
  /\ last.reply = FamilyDone
  /\ last.msg = "no"
  /\ FamilyRecord.promoCode = Some("")

\* the stored travel record
TravelRecord == Val(Doc(store).collected_info.payload)

\* the comma-separated tokens of a destination answer, trimmed and lower-cased
Tokens(m) ==
  LET pieces == Split(Strip(m), ",")
  IN [ i \in 1..Len(pieces) |-> Lower(Strip(pieces[i])) ]

NotInTable(t) == \A e \in CountryCodeMap : e[1] # t

CodeOf(t) == (CHOOSE e \in CountryCodeMap : e[1] = t)[2]

UnknownTokens(m) == SelectSeq(Tokens(m), NotInTable)

\* C12: a message handled while the destination is awaited is rejected when
\* it has more than ten tokens or a token missing from the table: the stored
\* document (country_code, marker) is unchanged and, for missing names, the
\* error lists exactly them; otherwise country_code becomes the codes of all
\* tokens in input order and another field is awaited.
C12_DestinationAtomic ==
  [][ ( /\ Stage = "travel_collection" /\ Marker = "destination"
        /\ last'.stage = "travel_collection" )
      => IF Len(Tokens(last'.msg)) > MaxCountries
         THEN /\ store' = store
              /\ last'.reply.kind = "error"
         ELSE IF Len(UnknownTokens(last'.msg)) > 0
         THEN /\ store' = store
              /\ last'.reply =
                   Reply("error", "I don't have information for: "
                                  \o Join(UnknownTokens(last'.msg))
                                  \o ". Please choose from the available destinations.")
         ELSE /\ TravelRecord'.travel.country_code =
                   Some([ i \in 1..Len(Tokens(last'.msg)) |-> CodeOf(Tokens(last'.msg)[i]) ])
              /\ Marker' # "destination"
    ]_vars

\* "Japan, Atlantis, France" was rejected naming atlantis alone, with no
\* country code committed
C12_Witness ==
  /\ last.msg = "Japan, Atlantis, France"
  /\ last.reply.text =
       "I don't have information for: atlantis. Please choose from the available destinations."
  /\ Marker = "destination"
  /\ TravelRecord.travel.country_code = Some(<< >>)

OverLimit ==
  Reply("error", "For an Annual Family plan, the maximum is 2 adults and 5 children. Let's start over with the number of travelers.")

\* C13: after the annual family over-limit message the persisted context
\* holds neither num_adults nor num_children and num_adults is awaited.
C13_OverLimitClears ==
  last.reply = OverLimit
    => /\ Marker = "num_adults"
       /\ IsNone(Context.num_adults)
       /\ IsNone(Context.num_children)

\* the fields of a travel record that can hold None (households_info is a
\* key the templates do not have: its None stands for absence)
TravelUnsetFields(p) ==
  { f \in { "country_code", "number_of_days", "zone" } : IsNone(p.travel[f]) }
    \cup (IF IsNone(p.travel.number_of_travellers.total) THEN { "total" } ELSE { })
    \cup (IF IsNone(p.promotion.coupon_code) THEN { "coupon_code" } ELSE { })
    \cup { f \in { "email", "contact_mobile" } : IsNone(p.leads[f]) }

FamilyUnsetFields(p) ==
  { f \in { "policyInceptionDate", "premiumType", "promoCode", "CEPReferralCode" } :
      IsNone(p[f]) }

\* C14: when a collection has completed (stage quote_generation) the stored
\* record has no field holding None, and the family record has no _internal
\* sub-structure.
C14_FinalizedNoUnset ==
  /\ (Stage = "quote_generation" /\ last.reply = TravelDone)
       => TravelUnsetFields(TravelRecord) = { }
  /\ (Stage = "quote_generation" /\ last.reply = FamilyDone)
       => /\ FamilyUnsetFields(FamilyRecord) = { }
          /\ IsNone(FamilyRecord.internal)

\* C15: a message answered with the generic apology leaves the persisted
\* stage, record, conversation context and marker as they were before it.
C15_FailSoft ==
  [][ last'.reply = Apology => Doc(store') = Doc(store) ]_vars

\* the apology was returned at finalization for an unparseable stored date:
\* the mobile number just given is not in the stored record
C15_Witness ==
  /\ last.reply = Apology
  /\ last.msg = "91234567"
  /\ Marker = "contact_mobile"
  /\ Context.start_date = Some("soon")
  /\ IsNone(TravelRecord.leads.contact_mobile)

\* the day of March 2025 a stored date names
MarchDay(d) ==
  CASE d = Some("2025-03-01") -> 1
    [] d = Some("2025-03-03") -> 3
    [] d = Some("2025-03-07") -> 7

\* C16: a finalized single trip has number_of_days = max(e - s + 1, 1) for
\* its stored start day s and end day e; every finalized travel payload has
\* number_of_days >= 1 (annual: 1).
C16_TripDuration ==
  (Stage = "quote_generation" /\ last.reply = TravelDone)
    => /\ ~IsNone(TravelRecord.travel.number_of_days)
       /\ Val(TravelRecord.travel.number_of_days) >= 1
       /\ TravelRecord.travel.policy_type = "annual"
            => TravelRecord.travel.number_of_days = Some(1)
       /\ TravelRecord.travel.policy_type = "single"
            => LET s == MarchDay(Context.start_date)
                   e == MarchDay(Context.end_date)
               IN TravelRecord.travel.number_of_days =
                    Some(IF e - s + 1 >= 1 THEN e - s + 1 ELSE 1)

\* a trip from 2025-03-03 to 2025-03-07 was finalized with five days
C16_Witness ==
  /\ Stage = "quote_generation"
  /\ last.reply = TravelDone
  /\ Context.start_date = Some("2025-03-03")
  /\ Context.end_date = Some("2025-03-07")
  /\ TravelRecord.travel.number_of_days = Some(5)

\* the household an answer describes
HouseholdOf(m) ==
  CASE m = "2,1" -> [ adults |-> 2, children |-> 1 ]
    [] m = "1 and 0" -> [ adults |-> 1, children |-> 0 ]

RECURSIVE HeadCount(_)
HeadCount(hs) ==
  IF hs = << >> THEN 0
  ELSE hs[1].adults + hs[1].children + HeadCount(Tail(hs))

\* the households answered so far
Households == Val(Context.households_data)

\* a travel collection for a group of households has just completed
HouseholdsDone ==
  /\ Stage = "quote_generation"
  /\ last.reply = TravelDone
  /\ Context.group_type_choice = Some("group_family")

\* C17: for a group of households with declared count N each accepted
\* household answer is appended to the answers so far and households are
\* asked until N are given; the finalized record lists the adults and the
\* children of the N answers in answer order, total is the sum of all of
\* them, group is N and with_group_of_households is yes.
C17_Households ==
  [][ /\ ( /\ Stage = "travel_collection" /\ Marker = "household_info"
           /\ last'.stage = "travel_collection" /\ last'.reply # Apology )
        => /\ Households' = Append(Households, HouseholdOf(last'.msg))
           /\ Marker' = "household_info" <=> Len(Households') < Val(Context.num_households)
      /\ HouseholdsDone'
        => /\ Len(Households') = Val(Context'.num_households)
           /\ TravelRecord'.travel.number_of_travellers.adult =
                [ i \in 1..Len(Households') |-> Households'[i].adults ]
           /\ TravelRecord'.travel.number_of_travellers.child =
                [ i \in 1..Len(Households') |-> Households'[i].children ]
           /\ TravelRecord'.travel.number_of_travellers.total = Some(HeadCount(Households'))
           /\ TravelRecord'.travel.number_of_travellers.group = Len(Households')
           /\ TravelRecord'.travel.with_group_of_households = "yes"
    ]_vars

\* two households answered "2,1" and "1 and 0" were finalized
C17_Witness ==
  /\ HouseholdsDone
  /\ Context.num_households = Some(2)
  /\ TravelRecord.travel.number_of_travellers.adult = << 2, 1 >>
  /\ TravelRecord.travel.number_of_travellers.child = << 1, 0 >>
  /\ TravelRecord.travel.number_of_travellers.total = Some(4)
  /\ TravelRecord.travel.number_of_travellers.group = 2
  /\ TravelRecord.travel.with_group_of_households = "yes"

\* what the claim requires of a handler's result r = << store, handler >> for
\* a message classified cls in stage initial
DispatchedAs(cls, r) ==
  IF cls.intent = "greeting"
  THEN /\ r[2].reply = Greeting
       /\ Doc(r[1]) = Doc(store)
       /\ r[2].calls = { "classifier" }
  ELSE IF cls.product = "TRAVEL"
  THEN /\ Doc(r[1]).stage = "travel_collection"
       /\ "travel_agent" \in r[2].calls
       /\ "family_agent" \notin r[2].calls
  ELSE IF cls.product = "FAMILY"
  THEN /\ Doc(r[1]).stage = "family_collection"
       /\ "family_agent" \in r[2].calls
       /\ "travel_agent" \notin r[2].calls
  ELSE /\ r[2].reply = PickProduct
       /\ Doc(r[1]) = Doc(store)
       /\ r[2].calls = { "classifier" }

\* C18: in stage initial a non-reset message classified TRAVEL (FAMILY)
\* without greeting intent moves the stage to that product's collection and
\* runs its agent; a greeting intent returns the greeting, any other product
\* label asks to pick a product, and both leave the stored document (stage,
\* record, marker) as it was.
C18_DispatchFromInitial ==
  Stage = "initial"
    => \A m \in OpeningMessages, cls \in Classifications :
         DispatchedAs(cls, orchestrate_chat(store, m, cls, "ok"))

\* a message classified TRAVEL started a travel collection
C18_Witness ==
  /\ last.msg \in OpeningMessages
  /\ last.stage \in { "", "initial" }
  /\ last.calls = { "classifier", "travel_agent" }
  /\ Stage = "travel_collection"
  /\ Marker = "policy_type"

\* the travel resolver returns DONE for what process_user_answer handed back
TravelDoneFor(r) ==
  /\ ~r.raised
  /\ IsNone(r.validation_error)
  /\ TravelNextQuestion(r.payload, r.context) = "DONE"

\* the travel resolver returns DONE for the stored record after the answer m
TravelResolves(m) ==
  /\ Marker # ""
  /\ TravelDoneFor(TravelProcessAnswer(m, Doc(store).collected_info.payload, Context))

FamilyDoneFor(r) ==
  /\ ~r.raised
  /\ IsNone(r.validation_error)
  /\ ~IsNone(r.payload)
  /\ FamilyNextQuestion(Val(r.payload)) = "DONE"

FamilyResolves(m) ==
  /\ Marker # ""
  /\ FamilyDoneFor(FamilyProcessAnswer(m, Doc(store).collected_info.family_payload, Context))

\* the moves between stages that are never made in one step
StageMovesAllowed ==
  /\ Stage = "initial" => Stage' # "quote_generation"
  /\ Stage = "travel_collection" => Stage' # "family_collection"
  /\ Stage = "family_collection" => Stage' # "travel_collection"

\* C19: a message handled in a collecting stage moves the stage to
\* quote_generation exactly when the resolver returns DONE for the record
\* after the answer; the finalized record is then stored under the product's
\* key and the marker is cleared; quote_generation is never entered from
\* initial and no collecting stage changes to the other one directly.
C19_StageTransitions ==
  [][ /\ (Stage = "travel_collection" /\ last'.stage = "travel_collection")
        => /\ Stage' = "quote_generation" <=> TravelResolves(last'.msg)
           /\ Stage' = "quote_generation"
                => /\ Marker' = ""
                   /\ ~IsNone(TravelRecord'.travel.number_of_travellers.total)
                   /\ ~IsNone(TravelRecord'.leads.contact_mobile)
      /\ (Stage = "family_collection" /\ last'.stage = "family_collection")
        => /\ Stage' = "quote_generation" <=> FamilyResolves(last'.msg)
           /\ Stage' = "quote_generation"
                => /\ Marker' = ""
                   /\ IsNone(FamilyRecord'.internal)
                   /\ ~IsNone(FamilyRecord'.promoCode)
      /\ StageMovesAllowed
    ]_vars

\* C20: a store operation's write commits only if no other writer changed
\* the document since the operation read it: the SET by which get_session
\* creates a session commits only while the key it found absent is still
\* absent.
C20_ConditionalWrites ==
  [][ \A i \in DOMAIN h :
        (h[i].creating /\ ~h'[i].creating) => IsNone(store) ]_vars

\* the history a handled message leaves, had nothing been dropped
Untrimmed ==
  (IF IsReset(last'.msg) THEN << >> ELSE ChatHistory(store))
    \o << << "user", last'.msg >>, << "assistant", last'.reply.text >> >>

\* C21: the stored chat_history never has more than 100 entries; a handled
\* message appends the user text then the reply, and what is stored is the
\* most recent entries in order: entries are dropped from the oldest end
\* only, and only beyond 100 (a reset starts the history anew). A message
\* answered with the apology appends nothing.
C21_HistoryCap ==
  [][ /\ Len(ChatHistory(store')) <= HistoryCap
      /\ last'.reply = Apology => ChatHistory(store') = ChatHistory(store)
      /\ (last'.reply # Apology /\ ~IsNone(store'))
           => /\ Len(ChatHistory(store')) =
                   (IF Len(Untrimmed) <= HistoryCap THEN Len(Untrimmed) ELSE HistoryCap)
              /\ \A i \in 1..Len(ChatHistory(store')) :
                   ChatHistory(store')[i] =
                     Untrimmed[Len(Untrimmed) - Len(ChatHistory(store')) + i]
    ]_vars

\* a history at the cap whose oldest entries were dropped
C21_Witness ==
  /\ Len(ChatHistory(store)) = HistoryCap
  /\ ChatHistory(store)[1] = << "user", "3" >>
  /\ ChatHistory(store)[HistoryCap] = << "assistant", "re 52" >>

\* answers to an enumerated question: one that matches no trigger word, and
\* one for each trigger in capitals or inside a sentence
LenientAnswers == { "ok", "ANNUAL", "my Family", "in Asia" }

\* the choice the claim expects an enumerated field to take from an answer
ExpectedChoice(q, m) ==
  CASE q \in { "policy_type", "premiumType" } ->
         IF m = "ANNUAL" THEN "annual" ELSE IF q = "policy_type" THEN "single" ELSE "monthly"
    [] q \in { "group_type_single", "group_type_annual", "insured_party" } ->
         IF m = "my Family" THEN "family" ELSE "myself"
    [] q = "zone" -> IF m = "in Asia" THEN "A2" ELSE "A3"

\* the choice stored for the enumerated field q in document d
StoredChoice(q, d) ==
  CASE q = "policy_type" -> d.conversation_context.policy_type_choice
    [] q \in { "group_type_single", "group_type_annual" } ->
         d.conversation_context.group_type_choice
    [] q = "zone" -> Val(d.collected_info.payload).travel.zone
    [] q = "premiumType" -> Val(d.collected_info.family_payload).premiumType
    [] q = "insured_party" ->
         LET p == Val(d.collected_info.family_payload)
         IN IF p.withChildren /\ p.withSpouse THEN Some("family")
            ELSE IF p.withChildren THEN Some("myself with child")
            ELSE IF ~p.withSpouse THEN Some("myself")
            ELSE None

\* the handler's result r for answer m to the enumerated question q: no
\* error, the expected choice stored, another field awaited
TakenAs(q, m, r) ==
  /\ r[2].reply.kind = "question"
  /\ StoredChoice(q, Doc(r[1])) = Some(ExpectedChoice(q, m))
  /\ Doc(r[1]).conversation_context.current_question_key \notin { None, Some(q) }

\* C22: every answer to an enumerated field, one matching no trigger word
\* included, gives no validation error, stores one of the field's choices
\* (the default when nothing matches: single, myself, A3, monthly, myself)
\* and moves on to another field. The family premium type is answered by
\* the message that starts the family collection.
C22_EnumeratedLeniency ==
  \A m \in LenientAnswers :
    /\ ( /\ Stage = "travel_collection"
         /\ Marker \in { "policy_type", "group_type_single", "group_type_annual", "zone" } )
         => TakenAs(Marker, m, orchestrate_chat(store, m, NoClass, "ok"))
    /\ (Stage = "family_collection" /\ Marker = "insured_party")
         => TakenAs(Marker, m, orchestrate_chat(store, m, NoClass, "ok"))
    /\ Stage = "initial"
         => TakenAs("premiumType", m,
                    orchestrate_chat(store, m, [ product |-> "FAMILY", intent |-> "quote" ], "ok"))

\* "Yourself" and "Worldwide" match no trigger word: an annual collection
\* went on with the defaults myself and A3
C22_Witness ==
  /\ Stage = "travel_collection"
  /\ last.msg = "Worldwide"
  /\ last.reply.kind = "question"
  /\ Context.policy_type_choice = Some("annual")
  /\ Context.group_type_choice = Some("myself")
  /\ TravelRecord.travel.zone = Some("A3")
  /\ Marker = "addon_pre_ex"

\* C23: an optional code holds the unset sentinel until it is answered
\* (travel coupon_code, family promoCode); answered with "no" it holds the
\* empty value, and any other answer is stored trimmed and otherwise
\* unchanged, also one that contains the letters "no".
C23_OptionalCodes ==
  /\ ( /\ Stage = "travel_collection" /\ ~IsNone(Doc(store).collected_info.payload)
       /\ Len(trail) < MaxTrail /\ "coupon_code" \notin Asked )
       => IsNone(TravelRecord.promotion.coupon_code)
  /\ (Stage = "family_collection" /\ "promoCode" \notin Asked)
       => IsNone(FamilyRecord.promoCode)
  /\ (Stage = "quote_generation" /\ last.reply = FamilyDone)
       => FamilyRecord.promoCode = Some(IF last.msg = "no" THEN "" ELSE Strip(last.msg))

\* the store operations of a handler before which an outage may begin
MaxOutageStep == 6

\* what the user may send in the session's state
Sendable ==
  IF Stage = "travel_collection" THEN TravelAnswers(Marker)
  ELSE IF Stage = "family_collection" THEN FamilyAnswers(Marker)
  ELSE OpeningMessages

\* the result r of a handler some of whose store operations failed: the
\* reply is the apology or a failure, and the store is as it was
FailedSoftly(r) ==
  r[3] => /\ r[2].reply.kind \in { "apology", "quote", "lost_product", "lost_details" }
          /\ r[1] = store

\* C24: when store operations fail while a message is handled, the reply is
\* the generic apology or a failure, never a question or an acknowledgement,
\* and the stored session is as it was before the message.
C24_StoreOutage ==
  \A m \in Sendable, n \in 0..MaxOutageStep :
    FailedSoftly(RunWithOutage(<< store, Begin(m, TravelQuote, "ok") >>, n, FALSE))

\* C25: the message that is classified is not taken as an answer: the reply
\* to it is the first question of the product's collection (policy type,
\* premium frequency), that field is awaited, and it is not set yet.
C25_FirstPrompt ==
  /\ (last.stage \in { "", "initial" } /\ Stage = "travel_collection")
       => /\ last.reply = Reply("question", TravelQuestion("policy_type"))
          /\ Marker = "policy_type"
  /\ (last.stage \in { "", "initial" } /\ Stage = "family_collection")
       => /\ last.reply = Reply("question", FamilyQuestion("premiumType"))
          /\ Marker = "premiumType"
          /\ \/ IsNone(Doc(store).collected_info.family_payload)
             \/ IsNone(FamilyRecord.premiumType)

\* an annual travel collection for a family has just completed
AnnualFamilyDone ==
  /\ Stage = "quote_generation"
  /\ last.reply = TravelDone
  /\ TravelRecord.travel.policy_type = "annual"
  /\ Context.group_type_choice = Some("family")

\* C26: a finalized annual payload for a family has at most 2 adults and at
\* most 5 children in number_of_travellers.
C26_AnnualFamilyLimit ==
  AnnualFamilyDone
    => /\ \A i \in DOMAIN TravelRecord.travel.number_of_travellers.adult :
            TravelRecord.travel.number_of_travellers.adult[i] <= MaxAnnualAdults
       /\ \A i \in DOMAIN TravelRecord.travel.number_of_travellers.child :
            TravelRecord.travel.number_of_travellers.child[i] <= MaxAnnualChildren

\* a global reset and an answer to a running travel collection were handled
\* together and both handlers have returned
ResetRaced ==
  /\ h[1].pc = "done" /\ h[2].pc = "done" /\ h[3].pc = "idle"
  /\ IsReset(h[1].msg) # IsReset(h[2].msg)
  /\ Doc(base).stage = "travel_collection"

\* C27: after a global reset and a collection handler have both finished,
\* the persisted context holds no branch label, count or date and no marker
\* of the collection that was reset, the record store holds no payload of
\* it, and the stage is not quote_generation with a missing record.
C27_ResetWins ==
  ResetRaced
    => /\ \A k \in { "policy_type_choice", "group_type_choice", "num_adults", "num_children",
                     "num_adults_group", "num_households", "start_date", "end_date" } :
            IsNone(Context[k])
       /\ Marker \in { "", "policy_type" }
       /\ IsNone(Doc(store).collected_info.payload)
       /\ Stage # "quote_generation"

\* C28: between two handled messages the awaiting-field marker is set
\* exactly when the stage is travel_collection or family_collection, and it
\* is then a label of that product's schema; in stages initial and
\* quote_generation no marker is active.
C28_MarkerMatchesStage ==
  /\ Stage \in { "initial", "travel_collection", "family_collection", "quote_generation" }
  /\ Marker # "" <=> Stage \in { "travel_collection", "family_collection" }
  /\ Stage = "travel_collection" => Marker \in TravelLabels
  /\ Stage = "family_collection" => Marker \in FamilyLabels

\* a family collection has completed and its quote was returned: the stage
\* is initial again and no marker is left
C28_Witness ==
  /\ Stage = "initial"
  /\ Marker = ""
  /\ last.reply.kind = "quote"
  /\ ~IsNone(Doc(store).collected_info.family_payload)
  /\ Context.primary_product = Some("FAMILY")

\* how many household answers the running collection accepted
HouseholdAnswersIn(t) == Cardinality({ i \in DOMAIN t : t[i] = "household_info" })

\* the household counters of a stored document are consistent
LoopCounters(d) ==
  LET c == d.conversation_context
  IN ~IsNone(c.households_collected)
       => /\ ~IsNone(c.households_to_collect) /\ ~IsNone(c.households_data)
          /\ 0 <= Val(c.households_collected)
          /\ Val(c.households_collected) <= Val(c.households_to_collect)
          /\ Val(c.households_collected) = Len(Val(c.households_data))

\* the counts a user may declare
HouseholdCounts == { "2", "0", "-1" }

\* C29: in every state the number of households collected lies between 0
\* and the number to collect and equals the number of stored household
\* entries; in the group-of-households branch a household is asked for as
\* long as fewer than the declared count N were accepted, so the collection
\* that declared N accepts exactly N household answers before it asks the
\* destination; this holds for every count the user declares.
C29_HouseholdLoop ==
  /\ LoopCounters(Doc(store))
  /\ ( /\ Stage = "travel_collection" /\ GroupChoice = Some("group_family")
       /\ ~IsNone(Context.num_households) )
     => /\ Marker = "household_info"
          <=> Val(Context.households_collected) < Val(Context.num_households)
        /\ ( "num_households" \in Asked /\ Len(trail) < MaxTrail
             /\ Marker # "household_info" )
           => HouseholdAnswersIn(trail) = Val(Context.num_households)
  /\ ( Stage = "travel_collection" /\ Marker = "num_households" )
     => \A m \in HouseholdCounts :
          LoopCounters(Doc(orchestrate_chat(store, m, NoClass, "ok")[1]))

\* the callers whose transaction committed
Committed == { i \in Callers : h[i].pc = "done" }

\* the orders in which the callers of S may run one after another
Orders(S) ==
  { o \in [ 1..Cardinality(S) -> S ] : \A a, b \in DOMAIN o : a # b => o[a] # o[b] }

\* the document after the operations of the callers in o ran one by one
RECURSIVE Serially(_, _)
Serially(session, o) ==
  IF o = << >> THEN session
  ELSE Serially(Modified(session, h[Head(o)].w), Tail(o))

\* the top-level fields operation w writes
Targets(w) ==
  CASE w.op = "set_stage" -> { "stage" }
    [] w.op = "set_collected_info" -> { "collected_info" }
    [] w.op = "update_context" -> { "conversation_context" }
    [] w.op = "update_session" -> { "chat_history" }

\* the exchange of operation w is in the stored history, user entry first
ExchangeKept(w) ==
  \E k \in 1..(Len(ChatHistory(store)) - 1) :
    /\ ChatHistory(store)[k] = << "user", w.user_message >>
    /\ ChatHistory(store)[k + 1] = << "assistant", w.agent_response >>

\* C30: set_stage, set_collected_info, update_conversation_context and
\* update_session are atomic with respect to each other on an existing
\* session: however their commands interleave, the stored document is what
\* the committed operations give when run one after another in some order;
\* a commit changes no top-level field but the one its operation targets,
\* and every committed update_session has its exchange in chat_history.
C30_WatchedSerial ==
  [][ /\ \E o \in Orders(Committed') : Val(store') = Serially(Val(base), o)'
      /\ \A i \in Committed' \ Committed :
           \A f \in DOMAIN Val(store) \ Targets(h[i].w) : Val(store')[f] = Val(store)[f]
      /\ \A i \in Committed' : h'[i].w.op = "update_session" => ExchangeKept(h[i].w)'
    ]_vars

\* set_stage and one update_session committed while the other
\* update_session held the document it had read before them: its EXEC
\* raised WatchError and it is back at pipe.watch, with nothing of it stored
C30_Witness ==
  /\ Committed = { 1, 3 }
  /\ h[1].w = WStage("quote_generation")
  /\ h[3].w = WExchange("two", "re two")
  /\ h[2].w = WExchange("one", "re one")
  /\ h[2].pc = "watch" /\ h[2].modified
  /\ h[2].session = base
  /\ Val(store).stage = "quote_generation"
  /\ ExchangeKept(h[3].w) /\ ~ExchangeKept(h[2].w)

\* the writers that committed after caller i issued its last WATCH
WritersSince(i) == { trail[k] : k \in (last[i] + 1)..Len(trail) }

\* caller i is between its GET and the answer to its EXEC
InFlight(i) == h[i].pc = "execute"

\* C31: with the store reachable, the EXEC of a watch-based operation fails
\* only when a write of another request committed after its WATCH, and the
\* operation then starts again at WATCH with nothing of it stored; callers
\* that watched after the last commit are not failed, so of the operations
\* in flight together the first to send EXEC commits; and with finitely
\* many competing writes every operation that was entered commits and
\* returns.
C31_RetryProgress ==
  /\ [][ \A i \in Callers :
           /\ ( InFlight(i) /\ h'[i].pc = "watch" )
                => /\ WritersSince(i) # {} /\ i \notin WritersSince(i)
                   /\ store' = store /\ h'[i].w = h[i].w
           /\ ( InFlight(i) /\ h'[i].pc = "done" )
                => /\ WritersSince(i) = {}
                   /\ store' = Some(Modified(Val(store), h[i].w))
           /\ ( InFlight(i) /\ WritersSince(i) = {} /\ h'[i].pc # "execute" )
                => h'[i].pc = "done"
     ]_vars
  /\ \A i \in Callers : ( h[i].pc # "idle" ) ~> ( h[i].pc = "done" )

\* all three operations committed although a plain SET and the other
\* callers wrote in between: the last to commit did so after three other
\* writes, the plain SET among them
C31_Witness ==
  /\ \A i \in Callers : h[i].pc = "done"
  /\ base = MaxResets
  /\ trail = << 1, 0, 3, 2 >> /\ last[2] = 3
  /\ h[1].w = WExchange("one", "re one")
  /\ h[2].w = WStage("quote_generation")
  /\ h[3].w = WExchange("one", "re one")
  /\ Val(store).stage = "quote_generation"
  /\ ChatHistory(store) = << << "user", "one" >>, << "assistant", "re one" >> >>

\* the composition each option of a group question stands for
OptionBranch(q) ==
  IF q = "group_type_single"
  THEN [ Yourself |-> "myself", Family |-> "family" ]
         @@ ("Group of Adults" :> "group_adults") @@ ("Group of Family" :> "group_family")
  ELSE [ Yourself |-> "myself", Family |-> "family" ]

\* the options of q as its prompt words them
PromptOptions(q) == { o \in DOMAIN OptionBranch(q) : Contains(TravelQuestion(q), o) }

\* C32: the prompt of each group question words all the options of the
\* question, and an answer that is one of these option texts sets
\* group_type_choice to that option's composition: Yourself, Family, Group
\* of Adults and Group of Family give myself, family, group_adults and
\* group_family on a single trip, Yourself and Family give myself and
\* family on an annual plan.
C32_OptionBranches ==
  [][ \A q \in { "group_type_single", "group_type_annual" } :
        /\ PromptOptions(q) = DOMAIN OptionBranch(q)
        /\ ( /\ Stage = "travel_collection" /\ Marker = q
             /\ last'.stage = "travel_collection" /\ last'.msg \in PromptOptions(q) )
           => GroupChoice' = Some(OptionBranch(q)[last'.msg])
    ]_vars

====
